---- MODULE Spec2Model ----
(***************************************************************************)
(* Session layer of the DKLs23 keygen (dkg) and sign (dsg) protocols as    *)
(* exposed over the C ABI in wrapper/go-ll: the round state machine of the *)
(* two session kinds, the message envelope, the handle lifecycle and the   *)
(* error values.  The protocol engine (crate dkls23_ll) is an opaque       *)
(* collaborator: whether it accepts a round is a nondeterministic input.   *)
(***************************************************************************)
EXTENDS Integers, Sequences, FiniteSets, TLC

(* ------------------------------------------------------------------ *)
(* Bounds of the model                                                  *)
(* ------------------------------------------------------------------ *)
MaxParties == 3
MaxBatch == 2

(* ------------------------------------------------------------------ *)
(* Program constants                                                    *)
(* ------------------------------------------------------------------ *)
BroadcastId == 255
CommitmentLen == 32
DigestLen == 32
PkLen == 33
CodeGeneric == 1
CodeAbortBan == 2

Participants == 2..MaxParties
PartyIds == {0}
Thresholds(n) == {2}

(* ------------------------------------------------------------------ *)
(* Option<u8>: None is the empty sequence, Some(x) is <<x>>             *)
(* ------------------------------------------------------------------ *)
None == <<>>
Some(x) == <<x>>
UnwrapOr(o, d) == IF o = None THEN d ELSE o[1]

(* ------------------------------------------------------------------ *)
(* Protocol messages of the engine and their routing                    *)
(* ------------------------------------------------------------------ *)
KeygenMsgTypes == {"KeygenMsg1", "KeygenMsg2", "KeygenMsg3", "KeygenMsg4"}
SignMsgTypes == {"SignMsg1", "SignMsg2", "SignMsg3", "SignMsg4"}
P2PTypes == {"KeygenMsg2", "KeygenMsg3", "SignMsg2", "SignMsg3"}

\* An engine message: its type and the routing fields the type declares
\* (a broadcast type has no to_id field; it is kept at BroadcastId here).
ProtoMsg(type, from, to) ==
    [type |-> type, from_id |-> from,
     to_id |-> IF type \in P2PTypes THEN to ELSE BroadcastId]

SrcPartyId(m) == m.from_id

\* Faulty variant: every message type answers None.
DstPartyId_None(m) == None

DstPartyId(m) == IF m.type \in P2PTypes THEN Some(m.to_id) ELSE None

TypeTag(type) ==
    CASE type = "KeygenMsg1" -> 11 [] type = "KeygenMsg2" -> 12
      [] type = "KeygenMsg3" -> 13 [] type = "KeygenMsg4" -> 14
      [] type = "SignMsg1" -> 21 [] type = "SignMsg2" -> 22
      [] type = "SignMsg3" -> 23 [] type = "SignMsg4" -> 24

\* ciborium::into_writer: the self-describing encoding of one engine message,
\* a tag for the type followed by the fields the type has.
CborEncode(m) ==
    IF m.type \in P2PTypes THEN <<TypeTag(m.type), m.from_id, m.to_id>>
    ELSE <<TypeTag(m.type), m.from_id>>

\* ciborium::from_reader::<T>: succeeds only on the encoding of a T.
CborDecodable(type, bytes) ==
    /\ Len(bytes) = (IF type \in P2PTypes THEN 3 ELSE 2)
    /\ bytes[1] = TypeTag(type)
    /\ \A i \in 2..Len(bytes) : bytes[i] \in 0..255

CborDecode(type, bytes) ==
    ProtoMsg(type, bytes[2], IF type \in P2PTypes THEN bytes[3] ELSE BroadcastId)

\* Message::new
MessageNew(payload) ==
    [from_id |-> SrcPartyId(payload),
     to_id |-> UnwrapOr(DstPartyId(payload), BroadcastId),
     payload |-> CborEncode(payload)]

\* Message::decode_vector: Ok(values) when every message decodes, Err otherwise.
DecodeVectorOk(type, input) ==
    \A i \in 1..Len(input) : CborDecodable(type, input[i].payload)

\* Faulty variant: the decoded batch comes out in reverse order.
DecodeVector_Reversed(type, input) ==
    [i \in 1..Len(input) |-> CborDecode(type, input[Len(input) + 1 - i].payload)]

DecodeVector(type, input) ==
    [i \in 1..Len(input) |-> CborDecode(type, input[i].payload)]

\* Message::encode_vector
EncodeVector(msgs) == [i \in 1..Len(msgs) |-> MessageNew(msgs[i])]

(* ------------------------------------------------------------------ *)
(* Error values                                                         *)
(* ------------------------------------------------------------------ *)
GoErrorNew(msg, code) == [message |-> msg, code |-> code]
NoError == [message |-> "", code |-> 0]

\* `if !err_out.is_null() { *err_out = ... }`: what the out-parameter holds.
StoreErr(errOutNull, e) == IF errOutNull THEN NoError ELSE e

\* Failure classes of the engine (dkg::KeygenError, dsg::SignError).
KeygenErrors == {"InvalidMessage", "InvalidCommitmentHash"}
SignErrors == {"AbortProtocolAndBanParty", "FailedCheck"}

\* Display of an engine error.
ErrorToString(e) ==
    CASE e = "InvalidMessage" -> "invalid message"
      [] e = "InvalidCommitmentHash" -> "invalid commitment hash"
      [] e = "AbortProtocolAndBanParty" -> "abort protocol and ban party"
      [] e = "FailedCheck" -> "failed check"

keygen_error_to_go(err) == GoErrorNew(ErrorToString(err), CodeGeneric)

\* Faulty variant: the test of the error class is negated.
sign_error_to_go_negated(err) ==
    GoErrorNew(ErrorToString(err),
               IF err # "AbortProtocolAndBanParty" THEN CodeAbortBan
               ELSE CodeGeneric)

sign_error_to_go(err) ==
    GoErrorNew(ErrorToString(err),
               IF err = "AbortProtocolAndBanParty" THEN CodeAbortBan
               ELSE CodeGeneric)

DecodeError == GoErrorNew("CBOR decode error", CodeGeneric)

(* ------------------------------------------------------------------ *)
(* Keyshares                                                            *)
(* ------------------------------------------------------------------ *)
PublicKeys == {1}

Keyshare(n, t, pid, pk) ==
    [rank_list |-> n, threshold |-> t, party_id |-> pid, public_key |-> pk]
NoShare == Keyshare(0, 0, 0, 0)

Keyshares ==
    UNION {{Keyshare(n, t, pid, pk) :
               t \in Thresholds(n), pid \in PartyIds, pk \in PublicKeys} :
           n \in Participants}

KeyshareHandleNew(inner) == [alive |-> TRUE, inner |-> inner]
FreedKeyshare == [alive |-> FALSE, inner |-> NoShare]

(* ------------------------------------------------------------------ *)
(* Keygen sessions                                                      *)
(* ------------------------------------------------------------------ *)
KeygenRounds ==
    {"Init", "WaitMsg1", "WaitMsg2", "WaitMsg3", "WaitMsg4", "Failed", "Share"}

\* enum Round of keygen.rs: a tag, and the keyshare the Share variant carries.
KRound(tag) == [tag |-> tag, share |-> NoShare]
KShare(share) == [tag |-> "Share", share |-> share]

\* The engine context dkg::State: the party descriptor it was built from, the
\* public key it has to reproduce (0: none, a fresh key is generated), and the
\* round operations applied to it so far.
DkgState(n, t, pid, pk) ==
    [ranks |-> n, t |-> t, party_id |-> pid, public_key |-> pk, calls |-> <<>>]
NoDkgState == DkgState(0, 0, 0, 0)

KeygenSessionHandleNew(state, n) ==
    [alive |-> TRUE, state |-> state, n |-> n, round |-> KRound("Init")]

\* The handle after Box::from_raw dropped it: no session, no round.
FreedKeygen ==
    [alive |-> FALSE, state |-> NoDkgState, n |-> 0, round |-> KRound("Freed")]

(* ------------------------------------------------------------------ *)
(* Sign sessions                                                        *)
(* ------------------------------------------------------------------ *)
SignRounds ==
    {"Init", "WaitMsg1", "WaitMsg2", "WaitMsg3", "Pre", "WaitMsg4", "Failed",
     "Finished"}

\* enum Round of sign.rs: a tag, and the pre-signature or partial signature
\* the Pre and WaitMsg4 variants carry.
SRound(tag) == [tag |-> tag, data |-> "none"]
SPre(pre) == [tag |-> "Pre", data |-> pre]
SWaitMsg4(partial) == [tag |-> "WaitMsg4", data |-> partial]

\* The engine context dsg::State: its own copy of the keyshare, and the round
\* operations applied to it so far.
DsgState(keyshare) == [keyshare |-> keyshare, calls |-> <<>>]
NoDsgState == DsgState(NoShare)

SignSessionHandleNew(state) ==
    [alive |-> TRUE, state |-> state, round |-> SRound("Init")]

FreedSign == [alive |-> FALSE, state |-> NoDsgState, round |-> SRound("Freed")]

(* ------------------------------------------------------------------ *)
(* State                                                                *)
(* ------------------------------------------------------------------ *)
VARIABLES
    kg,     \* the host's keygen session handle and the session behind it
    sg,     \* the host's sign session handle and the session behind it
    ks,     \* the host's keyshare handle and the keyshare behind it
    ret,    \* what the last call returned and stored in its out-parameters
    twin,   \* two sessions driven by the same calls (specification SpecDet)
    wire,   \* a batch of engine messages on its way through
            \* encode_vector and decode_vector (specification SpecCodec)
    net     \* the sessions of n parties and the messages delivered to each
            \* (specification SpecNet)

vars == <<kg, sg, ks, ret, twin, wire, net>>

\* No commitments buffer.
NoCommitments == [null |-> TRUE, len |-> 0]

\* The arguments of an initialization: whether the keyshare pointer was null,
\* the public key buffer and the derivation path.
InitArg(keyshareNull, pk, path) ==
    [keyshareNull |-> keyshareNull, pk |-> pk, path |-> path]
NoPk == [len |-> 0, valid |-> FALSE, pk |-> 0]
NoPath == [null |-> TRUE, utf8 |-> TRUE, str |-> <<>>]
NoArg == InitArg(FALSE, NoPk, NoPath)

\* A call and its result: the function called, the round it found, the
\* message batch, commitments buffer, digest length and initialization
\* arguments (arg) and serialized bytes it was given, whether
\* an output buffer it needs was null (outNull), how many times it wrote
\* *err_out (stored), whether
\* it reported success (status 0 or a non-null pointer), the error stored in
\* *err_out, the messages returned, the engine operation it invoked and that
\* operation's outcome, and the bytes written to output buffers.
Ret(op, round0) ==
    [op |-> op, round0 |-> round0, msgs |-> <<>>, comm |-> NoCommitments,
     hashLen |-> 0, ok |-> TRUE, err |-> NoError, errOutNull |-> FALSE,
     out |-> <<>>, engine |-> "none", eres |-> "none", data |-> <<>>,
     outNull |-> FALSE, stored |-> 0, arg |-> NoArg, bytes |-> <<>>]

\* One of the two sessions of a pair and what its last call returned: the
\* handles, the messages returned, whether the call succeeded, and whether
\* the process panicked.
\* What is known of the last call that was passed a seed: the call, the seed,
\* the handles it found, whether its other arguments were acceptable, the
\* entropy of the system at that moment and the generator it got.
NoCall ==
    [op |-> "none", seed |-> [null |-> TRUE, len |-> 0, val |-> 0],
     kg0 |-> "none", sg0 |-> "none", argsOk |-> TRUE, entropy |-> 0,
     rng |-> [panic |-> FALSE, stream |-> 0]]

DetWorld(kgh, sgh, out, ok, dead) ==
    [kg |-> kgh, sg |-> sgh, out |-> out, ok |-> ok, dead |-> dead,
     call |-> NoCall]
InitWorld == DetWorld(FreedKeygen, FreedSign, <<>>, TRUE, FALSE)
Aborted == DetWorld(FreedKeygen, FreedSign, <<>>, FALSE, TRUE)

\* The pair: its two sessions, whether their engine contexts were built and
\* driven with the same random streams so far (sync), and whether every call
\* so far was given the same seed in both (same).
Twin(a, b, sync, same) == [a |-> a, b |-> b, sync |-> sync, same |-> same]

\* A batch on the wire: the engine messages sent, their type, the Messages
\* encode_vector made of them, and, once decode_vector ran, the type it
\* decoded them as, whether it returned Ok, and the engine messages it got.
Wire(type, sent, batch, step, as, ok, got) ==
    [type |-> type, sent |-> sent, batch |-> batch, step |-> step,
     as |-> as, ok |-> ok, got |-> got]

\* The parties of one key generation: their number and threshold, the public
\* key their engines arrive at, and per party (party i at index i + 1) the
\* session, the messages delivered to it and not yet consumed, and the
\* keyshare it extracted.
NoNet == [n |-> 0, t |-> 0, pk |-> 0, session |-> <<>>, inbox |-> <<>>,
          share |-> <<>>]

Init ==
    /\ kg = FreedKeygen
    /\ sg = FreedSign
    /\ ks = FreedKeyshare
    /\ ret = Ret("none", "none")
    /\ twin = Twin(InitWorld, InitWorld, TRUE, TRUE)
    /\ wire = Wire("KeygenMsg1", <<>>, <<>>, "none", "KeygenMsg1", TRUE, <<>>)
    /\ net = NoNet

\* The host drives one session at a time: it creates a session when it holds
\* none.  Sessions share no state, every exported function reads and writes
\* only the handles it is given.
NoSession == ~kg.alive /\ ~sg.alive

\* A handle argument: the handle the host holds, null when it holds none.
HandleArgs(alive) == IF alive THEN {"live"} ELSE {"null"}

(* ------------------------------------------------------------------ *)
(* Inputs of the host                                                   *)
(* ------------------------------------------------------------------ *)
\* A payload that is the encoding of no protocol message.
GarbageMessage == [from_id |-> 1, to_id |-> BroadcastId, payload |-> <<0>>]

\* Inbound messages for a round that expects `type`: a well-formed message of
\* that type and one of another round's type, both sent by party 1 (to party 0
\* when point-to-point), and one undecodable message.
OtherType(type) ==
    CASE type = "KeygenMsg1" -> "KeygenMsg2" [] type = "KeygenMsg2" -> "KeygenMsg3"
      [] type = "KeygenMsg3" -> "KeygenMsg4" [] type = "KeygenMsg4" -> "KeygenMsg1"
      [] type = "SignMsg1" -> "SignMsg2" [] type = "SignMsg2" -> "SignMsg3"
      [] type = "SignMsg3" -> "SignMsg4" [] type = "SignMsg4" -> "SignMsg1"

Inbound(type) ==
    {MessageNew(ProtoMsg(type, 1, 0)), MessageNew(ProtoMsg(OtherType(type), 1, 0)),
     GarbageMessage}

\* The message type each round of a session decodes its input as.
KeygenExpects(tag) ==
    CASE tag = "WaitMsg1" -> "KeygenMsg1" [] tag = "WaitMsg2" -> "KeygenMsg2"
      [] tag = "WaitMsg3" -> "KeygenMsg3" [] tag = "WaitMsg4" -> "KeygenMsg4"
SignExpects(tag) ==
    CASE tag = "WaitMsg1" -> "SignMsg1" [] tag = "WaitMsg2" -> "SignMsg2"
      [] tag = "WaitMsg3" -> "SignMsg3" [] tag = "WaitMsg4" -> "SignMsg4"

Batches(S) == UNION {[1..k -> S] : k \in 0..MaxBatch}

\* The commitments argument: a null pointer, or a buffer of some length.
CommitmentArgs ==
    {[null |-> TRUE, len |-> 0]} \cup
    {[null |-> FALSE, len |-> l] :
        l \in {k * CommitmentLen : k \in 0..(MaxParties + 1)} \cup {CommitmentLen + 1}}

KeygenEngineResults == {"ok"} \cup KeygenErrors
SignEngineResults == {"ok"} \cup SignErrors

(* ------------------------------------------------------------------ *)
(* The engine as the session layer drives it                            *)
(* ------------------------------------------------------------------ *)
\* What an accepted round operation returns: the first message of this party,
\* one point-to-point reply to the sender of every message consumed, or the
\* single broadcast message of round 4.
EngineReply(proto, op, pid, msgs) ==
    CASE op = "generate_msg1" ->
           <<ProtoMsg(IF proto = "dkg" THEN "KeygenMsg1" ELSE "SignMsg1",
                      pid, BroadcastId)>>
      [] op = "handle_msg1" ->
           [i \in 1..Len(msgs) |->
               ProtoMsg(IF proto = "dkg" THEN "KeygenMsg2" ELSE "SignMsg2",
                        pid, msgs[i].from_id)]
      [] op = "handle_msg2" ->
           [i \in 1..Len(msgs) |->
               ProtoMsg(IF proto = "dkg" THEN "KeygenMsg3" ELSE "SignMsg3",
                        pid, msgs[i].from_id)]
      [] op = "handle_msg3" -> <<ProtoMsg("KeygenMsg4", pid, BroadcastId)>>
      [] op = "create_partial_signature" ->
           <<ProtoMsg("SignMsg4", pid, BroadcastId)>>

\* The keyshare dkg::State::handle_msg4 completes.
EngineKeyshare(st, pk) ==
    Keyshare(st.ranks, st.t, st.party_id,
             IF st.public_key = 0 THEN pk ELSE st.public_key)

\* The engine context after one more round operation was applied to it.
EngineCall(h, op) == [h EXCEPT !.state.calls = Append(@, op)]

\* What a handler computes: the session after the call and the result.
Outcome(h, ok, err, out, engine, eres) ==
    [h |-> h, ok |-> ok, err |-> err, out |-> out, engine |-> engine,
     eres |-> eres, data |-> <<>>]

\* The writes of *err_out on a path that ends with the error `e`: every path
\* of the exported functions writes its error once, behind a null check, and
\* returns; a path that ends without an error writes nothing.
Stores(errOutNull, e) == IF errOutNull \/ e = NoError THEN 0 ELSE 1

Rejected(h, msg) ==
    Outcome(h, FALSE, GoErrorNew(msg, CodeGeneric), <<>>, "none", "none")

\* The result of a call as the host sees it.
RetOf(op, round0, errOutNull, o) ==
    [Ret(op, round0) EXCEPT
        !.ok = o.ok,
        !.err = StoreErr(errOutNull, o.err),
        !.stored = Stores(errOutNull, o.err),
        !.errOutNull = errOutNull, !.out = o.out, !.engine = o.engine,
        !.eres = o.eres, !.data = o.data]

(* ------------------------------------------------------------------ *)
(* Keygen operations                                                    *)
(* ------------------------------------------------------------------ *)
\* Faulty variant: the first message is produced whatever the round.
keygen_create_first_message_any(h) ==
    Outcome([EngineCall(h, "generate_msg1") EXCEPT !.round = KRound("WaitMsg1")],
            TRUE, NoError,
            <<MessageNew(EngineReply("dkg", "generate_msg1", h.state.party_id, <<>>)[1])>>,
            "generate_msg1", "ok")

\* dkls_keygen_create_first_message, on a non-null handle
keygen_create_first_message(h) ==
    IF h.round.tag = "Init"
    THEN Outcome([EngineCall(h, "generate_msg1") EXCEPT !.round = KRound("WaitMsg1")],
                 TRUE, NoError,
                 <<MessageNew(EngineReply("dkg", "generate_msg1", h.state.party_id, <<>>)[1])>>,
                 "generate_msg1", "ok")
    ELSE Rejected(h, "invalid state")

\* Faulty variant: a decode error in handle_messages sets the round to Failed.
KeygenDecodeErrorRound_Fails(round) == KRound("Failed")

\* The round a decode error leaves behind in handle_messages of keygen.rs.
KeygenDecodeErrorRound(round) == round

\* Faulty variant: an engine rejection leaves the round as it was.
KeygenEngineErrorRound_Keeps(round) == round

\* The round an engine rejection leaves behind in keygen.rs.
KeygenEngineErrorRound(round) == KRound("Failed")

\* handle_messages of keygen.rs: decode the batch as `type`, apply the engine
\* operation `op`, encode its replies and move to `next`.
keygen_handle_messages(h, msgs, type, op, eres, next) ==
    IF ~DecodeVectorOk(type, msgs)
    THEN Outcome([h EXCEPT !.round = KeygenDecodeErrorRound(h.round)],
                 FALSE, DecodeError, <<>>, "none", "none")
    ELSE IF eres = "ok"
    THEN Outcome([EngineCall(h, op) EXCEPT !.round = next], TRUE, NoError,
                 EncodeVector(EngineReply("dkg", op, h.state.party_id,
                                          DecodeVector(type, msgs))),
                 op, eres)
    ELSE Outcome([EngineCall(h, op) EXCEPT !.round = KeygenEngineErrorRound(h.round)],
                 FALSE, keygen_error_to_go(eres), <<>>, op, eres)

\* Faulty variant: the length of the commitments buffer is not compared with n * 32.
CommitmentsError_NoLength(comm, n) ==
    IF comm.null \/ comm.len = 0 THEN "commitments required" ELSE ""

\* The commitments check of round WaitMsg3: "" when the buffer passes.
CommitmentsError(comm, n) ==
    IF comm.null \/ comm.len = 0 THEN "commitments required"
    ELSE IF comm.len # n * CommitmentLen THEN "invalid commitments length"
    ELSE ""

\* The WaitMsg4 arm of dkls_keygen_handle_messages.
keygen_handle_round4(h, msgs, eres, pk) ==
    IF ~DecodeVectorOk("KeygenMsg4", msgs)
    THEN Outcome([h EXCEPT !.round = KRound("Failed")], FALSE, DecodeError,
                 <<>>, "none", "none")
    ELSE IF eres = "ok"
    THEN Outcome([EngineCall(h, "handle_msg4") EXCEPT
                     !.round = KShare(EngineKeyshare(h.state, pk))],
                 TRUE, NoError, <<>>, "handle_msg4", eres)
    ELSE Outcome([EngineCall(h, "handle_msg4") EXCEPT !.round = KRound("Failed")],
                 FALSE, keygen_error_to_go(eres), <<>>, "handle_msg4", eres)

\* Faulty variant: a call in a round that takes no messages fails the session.
keygen_handle_wrong_round_fails(h) ==
    IF h.round.tag = "Failed" THEN Rejected(h, "failed session")
    ELSE Rejected([h EXCEPT !.round = KRound("Failed")], "invalid session state")

\* Faulty variant: the arm for Init and Share returns -1 without an error.
keygen_handle_wrong_round_silent(h) ==
    IF h.round.tag = "Failed" THEN Rejected(h, "failed session")
    ELSE Outcome(h, FALSE, NoError, <<>>, "none", "none")

\* The arms of dkls_keygen_handle_messages for the rounds that take no messages.
keygen_handle_wrong_round(h) ==
    IF h.round.tag = "Failed" THEN Rejected(h, "failed session")
    ELSE Rejected(h, "invalid session state")

\* Faulty variant: the `next` rounds of two arms are mixed up.
KeygenNextRound_Skips(tag) ==
    CASE tag = "WaitMsg1" -> KRound("WaitMsg3")
      [] tag = "WaitMsg2" -> KRound("WaitMsg3")
      [] tag = "WaitMsg3" -> KRound("WaitMsg4")

\* The `next` round dkls_keygen_handle_messages passes to handle_messages.
KeygenNextRound(tag) ==
    CASE tag = "WaitMsg1" -> KRound("WaitMsg2")
      [] tag = "WaitMsg2" -> KRound("WaitMsg3")
      [] tag = "WaitMsg3" -> KRound("WaitMsg4")

\* dkls_keygen_handle_messages, on a non-null handle
dkls_keygen_handle_messages(h, msgs, comm, eres, pk) ==
    CASE h.round.tag = "WaitMsg1" ->
           keygen_handle_messages(h, msgs, "KeygenMsg1", "handle_msg1", eres,
                                  KeygenNextRound(h.round.tag))
      [] h.round.tag = "WaitMsg2" ->
           keygen_handle_messages(h, msgs, "KeygenMsg2", "handle_msg2", eres,
                                  KeygenNextRound(h.round.tag))
      [] h.round.tag = "WaitMsg3" ->
           IF CommitmentsError(comm, h.n) # ""
           THEN Rejected(h, CommitmentsError(comm, h.n))
           ELSE keygen_handle_messages(h, msgs, "KeygenMsg3", "handle_msg3", eres,
                                       KeygenNextRound(h.round.tag))
      [] h.round.tag = "WaitMsg4" -> keygen_handle_round4(h, msgs, eres, pk)
      [] OTHER -> keygen_handle_wrong_round(h)

\* Faulty variant: the handle is never dropped.
keygen_keyshare_keeps(h) == [h EXCEPT !.round = KRound("Failed")]

\* The handle dkls_keygen_keyshare leaves behind: the round is taken out of it
\* (Failed is left in its place) and the handle is dropped, except when the
\* round taken was Failed.
keygen_keyshare_handle(h) ==
    IF h.round.tag = "Failed" THEN [h EXCEPT !.round = KRound("Failed")]
    ELSE FreedKeygen

\* dkls_keygen_keyshare, on a non-null handle
dkls_keygen_keyshare(h) ==
    CASE h.round.tag = "Share" ->
           Outcome(keygen_keyshare_handle(h), TRUE, NoError, <<>>, "none", "none")
      [] h.round.tag = "Failed" -> Rejected(keygen_keyshare_handle(h), "failed")
      [] OTHER -> Rejected(keygen_keyshare_handle(h), "keygen-in-progress")

\* The result of a call that found a null pointer where it needs a handle.
NullArg(op, errOutNull, msg) ==
    [Ret(op, "none") EXCEPT !.ok = FALSE, !.errOutNull = errOutNull,
        !.err = StoreErr(errOutNull, GoErrorNew(msg, CodeGeneric)),
        !.stored = Stores(errOutNull, GoErrorNew(msg, CodeGeneric))]

\* The result of a call that has no error out-parameter.
Plain(op, round0, ok, data) ==
    [Ret(op, round0) EXCEPT !.ok = ok, !.errOutNull = TRUE, !.data = data]

\* The session a keygen initialization builds from what the engine answered.
keygen_init(ctor, eres, n, t, pid, pk) ==
    IF eres = "ok"
    THEN Outcome(KeygenSessionHandleNew(DkgState(n, t, pid, pk), n), TRUE, NoError,
                 <<>>, ctor, eres)
    ELSE Outcome(FreedKeygen, FALSE, keygen_error_to_go(eres), <<>>, ctor, eres)

\* Faulty variant: the decoded point is used without the test for None.
dkls_keygen_init_lost_share_recovery_unchecked(participants, t, pid, pkArg, eres) ==
    IF pkArg.len # PkLen THEN Rejected(FreedKeygen, "invalid PK size")
    ELSE keygen_init("key_refresh", eres, participants, t, pid, pkArg.pk)

\* dkls_keygen_init_lost_share_recovery: the checks of the public key
dkls_keygen_init_lost_share_recovery(participants, t, pid, pkArg, eres) ==
    IF pkArg.len # PkLen THEN Rejected(FreedKeygen, "invalid PK size")
    ELSE IF ~pkArg.valid THEN Rejected(FreedKeygen, "invalid PK")
    ELSE keygen_init("key_refresh", eres, participants, t, pid, pkArg.pk)

RoundCode(tag) ==
    CASE tag = "Init" -> 0 [] tag = "WaitMsg1" -> 1 [] tag = "WaitMsg2" -> 2
      [] tag = "WaitMsg3" -> 3 [] tag = "WaitMsg4" -> 4 [] tag = "Failed" -> 5
      [] tag = "Share" -> 6 [] tag = "Pre" -> 7 [] tag = "Finished" -> 8

\* The bytes dkls_keygen_to_bytes writes: n and the round, with the keyshare
\* of a Share round; the engine context is not part of them.
keygen_to_bytes(h) ==
    <<h.n, RoundCode(h.round.tag)>> \o
    (IF h.round.tag = "Share"
     THEN <<h.round.share.rank_list, h.round.share.threshold, h.round.share.party_id>>
     ELSE <<>>)

Commitment2 == [i \in 1..CommitmentLen |-> 0]

\* The byte strings the host passes to a from_bytes function: nothing, one
\* zero byte, and the serialization of the session it holds.
BytesArgs(serialized) == {<<>>, <<0>>} \cup serialized

\* Faulty variant: the round is read back from the bytes.
dkls_keygen_from_bytes_resumes(bytes) ==
    IF Len(bytes) >= 2 /\ \E tag \in KeygenRounds \ {"Share"} : RoundCode(tag) = bytes[2]
    THEN [alive |-> TRUE, state |-> NoDkgState, n |-> bytes[1],
          round |-> KRound(CHOOSE tag \in KeygenRounds \ {"Share"} :
                               RoundCode(tag) = bytes[2])]
    ELSE FreedKeygen

\* dkls_keygen_from_bytes: the handle returned, null for every input
dkls_keygen_from_bytes(bytes) == FreedKeygen

(* ------------------------------------------------------------------ *)
(* Keygen actions: one per exported function                            *)
(* ------------------------------------------------------------------ *)
PkArgs ==
    {[len |-> l, valid |-> v, pk |-> k] :
        l \in {PkLen - 1, PkLen}, v \in BOOLEAN, k \in PublicKeys}

KeygenNew ==
    /\ NoSession
    /\ \E participants \in Participants, pid \in PartyIds :
         \E t \in Thresholds(participants) :
           /\ kg' = KeygenSessionHandleNew(DkgState(participants, t, pid, 0),
                                           participants)
           /\ ret' = [Ret("dkls_keygen_new", "none") EXCEPT !.engine = "new"]
    /\ UNCHANGED <<sg, ks, twin, wire, net>>

\* What dkls_keygen_init_key_rotation and dkls_keygen_init_key_recovery do with
\* a non-null keyshare handle; the two differ in the engine constructor called.
keygen_init_from_share(ctor, keyshare, eres) ==
    keygen_init(ctor, eres, keyshare.inner.rank_list, keyshare.inner.threshold,
                keyshare.inner.party_id, keyshare.inner.public_key)

KeygenInitKeyRotation ==
    /\ NoSession
    /\ \E oldshare \in HandleArgs(ks.alive), errOutNull \in BOOLEAN :
         IF oldshare = "null"
         THEN /\ ret' = [NullArg("dkls_keygen_init_key_rotation", errOutNull,
                                 "null keyshare")
                           EXCEPT !.arg = InitArg(TRUE, NoPk, NoPath)]
              /\ UNCHANGED kg
         ELSE \E eres \in KeygenEngineResults :
                LET o == keygen_init_from_share("key_rotation", ks, eres)
                IN /\ kg' = o.h
                   /\ ret' = RetOf("dkls_keygen_init_key_rotation", "none",
                                   errOutNull, o)
    /\ UNCHANGED <<sg, ks, twin, wire, net>>

KeygenInitKeyRecovery ==
    /\ NoSession
    /\ \E oldshare \in HandleArgs(ks.alive), errOutNull \in BOOLEAN :
         IF oldshare = "null"
         THEN /\ ret' = [NullArg("dkls_keygen_init_key_recovery", errOutNull,
                                 "null keyshare")
                           EXCEPT !.arg = InitArg(TRUE, NoPk, NoPath)]
              /\ UNCHANGED kg
         ELSE \E eres \in KeygenEngineResults :
                LET o == keygen_init_from_share("key_refresh", ks, eres)
                IN /\ kg' = o.h
                   /\ ret' = RetOf("dkls_keygen_init_key_recovery", "none",
                                   errOutNull, o)
    /\ UNCHANGED <<sg, ks, twin, wire, net>>

KeygenInitLostShareRecovery ==
    /\ NoSession
    /\ \E participants \in Participants, pid \in PartyIds, pkArg \in PkArgs,
          errOutNull \in BOOLEAN :
         \E t \in Thresholds(participants),
            eres \in (IF pkArg.len = PkLen /\ pkArg.valid
                      THEN KeygenEngineResults ELSE {"ok"}) :
           LET o == dkls_keygen_init_lost_share_recovery(participants, t, pid,
                                                         pkArg, eres)
           IN /\ kg' = o.h
              /\ ret' = [RetOf("dkls_keygen_init_lost_share_recovery", "none",
                               errOutNull, o)
                            EXCEPT !.arg = InitArg(FALSE, pkArg, NoPath)]
    /\ UNCHANGED <<sg, ks, twin, wire, net>>

KeygenToBytes ==
    /\ \E handle \in HandleArgs(kg.alive) :
         ret' = IF handle = "null"
                THEN Plain("dkls_keygen_to_bytes", "none", FALSE, <<>>)
                ELSE Plain("dkls_keygen_to_bytes", kg.round.tag, TRUE,
                           keygen_to_bytes(kg))
    /\ UNCHANGED <<kg, sg, ks, twin, wire, net>>

KeygenFromBytes ==
    /\ \E bytes \in BytesArgs(IF kg.alive THEN {keygen_to_bytes(kg)} ELSE {}) :
         LET h == dkls_keygen_from_bytes(bytes)
         IN /\ kg' = IF h.alive THEN h ELSE kg
            /\ ret' = [Plain("dkls_keygen_from_bytes", "none", h.alive, <<>>)
                          EXCEPT !.bytes = bytes]
    /\ UNCHANGED <<sg, ks, twin, wire, net>>

KeygenCreateFirstMessage ==
    /\ \E handle \in HandleArgs(kg.alive), errOutNull \in BOOLEAN :
         IF handle = "null"
         THEN /\ ret' = NullArg("dkls_keygen_create_first_message", errOutNull,
                                "null handle")
              /\ UNCHANGED kg
         ELSE LET o == keygen_create_first_message(kg)
              IN /\ kg' = o.h
                 /\ ret' = RetOf("dkls_keygen_create_first_message", kg.round.tag,
                                 errOutNull, o)
    /\ UNCHANGED <<sg, ks, twin, wire, net>>

KeygenCalculateCommitment2 ==
    /\ \E handle \in HandleArgs(kg.alive), outNull \in BOOLEAN :
         ret' = IF handle = "null" \/ outNull
                THEN Plain("dkls_keygen_calculate_commitment_2", "none", FALSE, <<>>)
                ELSE Plain("dkls_keygen_calculate_commitment_2", kg.round.tag,
                           Len(Commitment2) = CommitmentLen, Commitment2)
    /\ UNCHANGED <<kg, sg, ks, twin, wire, net>>

\* Whether dkls_keygen_handle_messages gets as far as decoding the batch, and
\* as far as calling the engine.
KeygenDecodes(h, comm) ==
    /\ h.round.tag \in {"WaitMsg1", "WaitMsg2", "WaitMsg3", "WaitMsg4"}
    /\ h.round.tag = "WaitMsg3" => CommitmentsError(comm, h.n) = ""

KeygenReachesEngine(h, msgs, comm) ==
    /\ KeygenDecodes(h, comm)
    /\ DecodeVectorOk(KeygenExpects(h.round.tag), msgs)

\* Inputs the path taken does not read are not enumerated.
KeygenHandleMessages ==
    /\ \E handle \in HandleArgs(kg.alive), errOutNull \in BOOLEAN :
         IF handle = "null"
         THEN /\ ret' = NullArg("dkls_keygen_handle_messages", errOutNull,
                                "null handle")
              /\ UNCHANGED kg
         ELSE \E comm \in (IF kg.round.tag = "WaitMsg3" THEN CommitmentArgs
                           ELSE {NoCommitments}),
                 pk \in PublicKeys :
              \E msgs \in (IF KeygenDecodes(kg, comm)
                           THEN Batches(Inbound(KeygenExpects(kg.round.tag)))
                           ELSE {<<>>}) :
              \E eres \in (IF KeygenReachesEngine(kg, msgs, comm)
                           THEN KeygenEngineResults ELSE {"ok"}) :
                LET o == dkls_keygen_handle_messages(kg, msgs, comm, eres, pk)
                IN /\ kg' = o.h
                   /\ ret' = [RetOf("dkls_keygen_handle_messages", kg.round.tag,
                                    errOutNull, o)
                                  EXCEPT !.msgs = msgs, !.comm = comm]
    /\ UNCHANGED <<sg, ks, twin, wire, net>>

\* The host holds one keyshare handle: it extracts when it holds none.
KeygenKeyshare ==
    /\ ~ks.alive
    /\ \E handle \in HandleArgs(kg.alive), errOutNull \in BOOLEAN :
         IF handle = "null"
         THEN /\ ret' = NullArg("dkls_keygen_keyshare", errOutNull, "null handle")
              /\ UNCHANGED <<kg, ks>>
         ELSE LET o == dkls_keygen_keyshare(kg)
              IN /\ kg' = o.h
                 /\ ks' = IF o.ok THEN KeyshareHandleNew(kg.round.share) ELSE ks
                 /\ ret' = RetOf("dkls_keygen_keyshare", kg.round.tag, errOutNull, o)
    /\ UNCHANGED <<sg, twin, wire, net>>

KeygenFree ==
    /\ \E handle \in HandleArgs(kg.alive) :
         IF handle = "null"
         THEN /\ ret' = Plain("dkls_keygen_free", "none", TRUE, <<>>)
              /\ UNCHANGED kg
         ELSE /\ kg' = FreedKeygen
              /\ ret' = Plain("dkls_keygen_free", kg.round.tag, TRUE, <<>>)
    /\ UNCHANGED <<sg, ks, twin, wire, net>>


(* ------------------------------------------------------------------ *)
(* Sign operations                                                      *)
(* ------------------------------------------------------------------ *)
\* The chain_path argument: a null pointer, bytes that are not UTF-8, or a
\* string over a small alphabet.
PathChars == {"m", "0", "x"}
PathArgs ==
    {[null |-> TRUE, utf8 |-> TRUE, str |-> <<>>],
     [null |-> FALSE, utf8 |-> FALSE, str |-> <<>>]} \cup
    {[null |-> FALSE, utf8 |-> TRUE, str |-> p] :
        p \in UNION {[1..k -> PathChars] : k \in 0..2}}

\* c_str_to_string: "" when the pointer yields a string
c_str_to_string_error(path) ==
    IF path.null THEN "null pointer"
    ELSE IF ~path.utf8 THEN "invalid UTF-8"
    ELSE ""

\* DerivationPath::from_str accepts "m" followed by numeric components.
DerivationPathOk(str) ==
    /\ Len(str) >= 1
    /\ str[1] = "m"
    /\ \A i \in 2..Len(str) : str[i] = "0"

\* Faulty variant: the session takes the caller's keyshare instead of a clone.
sign_new_keyshare_taken(keyshare) == FreedKeyshare

\* The caller's keyshare handle after dkls_sign_new: the function reads it
\* through a const pointer and hands a clone of `inner` to the engine.
sign_new_keyshare(keyshare) == keyshare

\* dkls_sign_new, on a non-null keyshare handle
dkls_sign_new(keyshare, path, eres) ==
    IF c_str_to_string_error(path) # ""
    THEN Rejected(FreedSign, c_str_to_string_error(path))
    ELSE IF ~DerivationPathOk(path.str)
    THEN Rejected(FreedSign, "invalid derivation path")
    ELSE IF eres = "ok"
    THEN Outcome(SignSessionHandleNew(DsgState(keyshare.inner)), TRUE, NoError,
                 <<>>, "new", eres)
    ELSE Outcome(FreedSign, FALSE,
                 GoErrorNew("sign session init failed", CodeGeneric), <<>>,
                 "new", eres)

\* The bytes dkls_sign_to_bytes writes: the round alone, and nothing for the
\* rounds that hold a pre-signature or a partial signature.
sign_to_bytes(h) ==
    IF h.round.tag \in {"Pre", "WaitMsg4"} THEN <<>>
    ELSE <<RoundCode(h.round.tag)>>

\* dkls_sign_from_bytes: the handle returned, null for every input
dkls_sign_from_bytes(bytes) == FreedSign

\* dkls_sign_create_first_message, on a non-null handle
sign_create_first_message(h) ==
    IF h.round.tag = "Init"
    THEN Outcome([EngineCall(h, "generate_msg1") EXCEPT !.round = SRound("WaitMsg1")],
                 TRUE, NoError,
                 <<MessageNew(EngineReply("dsg", "generate_msg1",
                                          h.state.keyshare.party_id, <<>>)[1])>>,
                 "generate_msg1", "ok")
    ELSE Rejected(h, "invalid state")

\* The round a decode error leaves behind in handle_messages of sign.rs.
SignDecodeErrorRound(round) == round

\* The round an engine rejection leaves behind in sign.rs.
SignEngineErrorRound(round) == SRound("Failed")

\* handle_messages of sign.rs
sign_handle_messages(h, msgs, type, op, eres, next) ==
    IF ~DecodeVectorOk(type, msgs)
    THEN Outcome([h EXCEPT !.round = SignDecodeErrorRound(h.round)],
                 FALSE, DecodeError, <<>>, "none", "none")
    ELSE IF eres = "ok"
    THEN Outcome([EngineCall(h, op) EXCEPT !.round = next], TRUE, NoError,
                 EncodeVector(EngineReply("dsg", op, h.state.keyshare.party_id,
                                          DecodeVector(type, msgs))),
                 op, eres)
    ELSE Outcome([EngineCall(h, op) EXCEPT !.round = SignEngineErrorRound(h.round)],
                 FALSE, sign_error_to_go(eres), <<>>, op, eres)

\* Faulty variant: a decode error leaves the round as it was, as it does in
\* handle_messages.
sign_handle_round3_retry(h, msgs, eres) ==
    IF ~DecodeVectorOk("SignMsg3", msgs)
    THEN Outcome(h, FALSE, DecodeError, <<>>, "none", "none")
    ELSE IF eres = "ok"
    THEN Outcome([EngineCall(h, "handle_msg3") EXCEPT !.round = SPre("pre")],
                 TRUE, NoError, <<>>, "handle_msg3", eres)
    ELSE Outcome([EngineCall(h, "handle_msg3") EXCEPT !.round = SRound("Failed")],
                 FALSE, sign_error_to_go(eres), <<>>, "handle_msg3", eres)

\* The WaitMsg3 arm of dkls_sign_handle_messages.
sign_handle_round3(h, msgs, eres) ==
    IF ~DecodeVectorOk("SignMsg3", msgs)
    THEN Outcome([h EXCEPT !.round = SRound("Failed")], FALSE, DecodeError,
                 <<>>, "none", "none")
    ELSE IF eres = "ok"
    THEN Outcome([EngineCall(h, "handle_msg3") EXCEPT !.round = SPre("pre")],
                 TRUE, NoError, <<>>, "handle_msg3", eres)
    ELSE Outcome([EngineCall(h, "handle_msg3") EXCEPT !.round = SRound("Failed")],
                 FALSE, sign_error_to_go(eres), <<>>, "handle_msg3", eres)

\* The arms of dkls_sign_handle_messages for the rounds that take no messages.
sign_handle_wrong_round(h) ==
    IF h.round.tag = "Failed" THEN Rejected(h, "failed")
    ELSE Rejected(h, "invalid session state")

\* Faulty variant: the first arm passes the round it is in.
SignNextRound_Stays(tag) ==
    CASE tag = "WaitMsg1" -> SRound("WaitMsg1")
      [] tag = "WaitMsg2" -> SRound("WaitMsg3")

\* The `next` round dkls_sign_handle_messages passes to handle_messages.
SignNextRound(tag) ==
    CASE tag = "WaitMsg1" -> SRound("WaitMsg2")
      [] tag = "WaitMsg2" -> SRound("WaitMsg3")

\* dkls_sign_handle_messages, on a non-null handle
dkls_sign_handle_messages(h, msgs, eres) ==
    CASE h.round.tag = "WaitMsg1" ->
           sign_handle_messages(h, msgs, "SignMsg1", "handle_msg1", eres,
                                SignNextRound(h.round.tag))
      [] h.round.tag = "WaitMsg2" ->
           sign_handle_messages(h, msgs, "SignMsg2", "handle_msg2", eres,
                                SignNextRound(h.round.tag))
      [] h.round.tag = "WaitMsg3" -> sign_handle_round3(h, msgs, eres)
      [] OTHER -> sign_handle_wrong_round(h)

\* Faulty variant: the round taken out is not put back.
sign_last_message_forgets(prev) == SRound("Finished")

\* The round dkls_sign_last_message puts back when the round it took out of
\* the handle (leaving Finished in its place) was not Pre.
sign_last_message_restore(prev) == prev

\* Faulty variant: a digest shorter than 32 bytes passes.
DigestLenOk_AtMost(hashLen) == hashLen <= DigestLen

\* The length check of dkls_sign_last_message on message_hash_len.
DigestLenOk(hashLen) == hashLen = DigestLen

\* dkls_sign_last_message, on a non-null handle
dkls_sign_last_message(h, hashLen) ==
    IF ~DigestLenOk(hashLen) THEN Rejected(h, "invalid message hash")
    ELSE IF h.round.tag = "Pre"
    THEN Outcome([EngineCall(h, "create_partial_signature") EXCEPT
                     !.round = SWaitMsg4("partial")],
                 TRUE, NoError,
                 <<MessageNew(EngineReply("dsg", "create_partial_signature",
                                          h.state.keyshare.party_id, <<>>)[1])>>,
                 "create_partial_signature", "ok")
    ELSE Rejected([h EXCEPT !.round = sign_last_message_restore(h.round)],
                  "invalid state")

\* The two halves of a signature sign.split_bytes() returns.
SignatureR == [i \in 1..DigestLen |-> 1]
SignatureS == [i \in 1..DigestLen |-> 2]

\* Faulty variant: the arm for the other rounds does not drop the handle.
sign_combine_handle_keeps(h) ==
    IF h.round.tag = "WaitMsg4" THEN FreedSign
    ELSE [h EXCEPT !.round = SRound("Finished")]

\* The handle dkls_sign_combine leaves behind: it is dropped on every path
\* past the null checks.
sign_combine_handle(h) == FreedSign

\* dkls_sign_combine, on non-null handle and output buffers
dkls_sign_combine(h, msgs, eres) ==
    IF h.round.tag = "WaitMsg4"
    THEN IF ~DecodeVectorOk("SignMsg4", msgs)
         THEN Outcome(sign_combine_handle(h), FALSE, DecodeError, <<>>, "none", "none")
         ELSE IF eres = "ok"
         THEN IF Len(SignatureR) # DigestLen \/ Len(SignatureS) # DigestLen
              THEN Outcome(sign_combine_handle(h), FALSE,
                           GoErrorNew("invalid signature size", CodeGeneric),
                           <<>>, "combine_signatures", eres)
              ELSE [Outcome(sign_combine_handle(h), TRUE, NoError, <<>>,
                            "combine_signatures", eres)
                       EXCEPT !.data = SignatureR \o SignatureS]
         ELSE Outcome(sign_combine_handle(h), FALSE, sign_error_to_go(eres), <<>>,
                      "combine_signatures", eres)
    ELSE Rejected(sign_combine_handle(h), "invalid state")

(* ------------------------------------------------------------------ *)
(* Sign actions: one per exported function                              *)
(* ------------------------------------------------------------------ *)
SignNew ==
    /\ NoSession
    /\ \E keyshare \in HandleArgs(ks.alive), errOutNull \in BOOLEAN :
         IF keyshare = "null"
         THEN /\ ret' = [NullArg("dkls_sign_new", errOutNull, "null keyshare")
                           EXCEPT !.arg = InitArg(TRUE, NoPk, NoPath)]
              /\ UNCHANGED <<sg, ks>>
         ELSE \E path \in PathArgs :
              \E eres \in (IF c_str_to_string_error(path) = "" /\ DerivationPathOk(path.str)
                           THEN SignEngineResults ELSE {"ok"}) :
                LET o == dkls_sign_new(ks, path, eres)
                IN /\ sg' = o.h
                   /\ ks' = sign_new_keyshare(ks)
                   /\ ret' = [RetOf("dkls_sign_new", "none", errOutNull, o)
                                 EXCEPT !.arg = InitArg(FALSE, NoPk, path)]
    /\ UNCHANGED <<kg, twin, wire, net>>

SignToBytes ==
    /\ \E handle \in HandleArgs(sg.alive) :
         ret' = IF handle = "null"
                THEN Plain("dkls_sign_to_bytes", "none", FALSE, <<>>)
                ELSE Plain("dkls_sign_to_bytes", sg.round.tag,
                           sign_to_bytes(sg) # <<>>, sign_to_bytes(sg))
    /\ UNCHANGED <<kg, sg, ks, twin, wire, net>>

SignFromBytes ==
    /\ \E bytes \in BytesArgs(IF sg.alive THEN {sign_to_bytes(sg)} ELSE {}) :
         LET h == dkls_sign_from_bytes(bytes)
         IN /\ sg' = IF h.alive THEN h ELSE sg
            /\ ret' = [Plain("dkls_sign_from_bytes", "none", h.alive, <<>>)
                          EXCEPT !.bytes = bytes]
    /\ UNCHANGED <<kg, ks, twin, wire, net>>

SignCreateFirstMessage ==
    /\ \E handle \in HandleArgs(sg.alive), errOutNull \in BOOLEAN :
         IF handle = "null"
         THEN /\ ret' = NullArg("dkls_sign_create_first_message", errOutNull,
                                "null handle")
              /\ UNCHANGED sg
         ELSE LET o == sign_create_first_message(sg)
              IN /\ sg' = o.h
                 /\ ret' = RetOf("dkls_sign_create_first_message", sg.round.tag,
                                 errOutNull, o)
    /\ UNCHANGED <<kg, ks, twin, wire, net>>

SignHandleMessages ==
    /\ \E handle \in HandleArgs(sg.alive), errOutNull \in BOOLEAN :
         IF handle = "null"
         THEN /\ ret' = NullArg("dkls_sign_handle_messages", errOutNull,
                                "null handle")
              /\ UNCHANGED sg
         ELSE \E msgs \in (IF sg.round.tag \in {"WaitMsg1", "WaitMsg2", "WaitMsg3"}
                           THEN Batches(Inbound(SignExpects(sg.round.tag)))
                           ELSE {<<>>}) :
              \E eres \in (IF /\ sg.round.tag \in {"WaitMsg1", "WaitMsg2", "WaitMsg3"}
                              /\ DecodeVectorOk(SignExpects(sg.round.tag), msgs)
                           THEN SignEngineResults ELSE {"ok"}) :
                LET o == dkls_sign_handle_messages(sg, msgs, eres)
                IN /\ sg' = o.h
                   /\ ret' = [RetOf("dkls_sign_handle_messages", sg.round.tag,
                                    errOutNull, o) EXCEPT !.msgs = msgs]
    /\ UNCHANGED <<kg, ks, twin, wire, net>>

SignLastMessage ==
    /\ \E handle \in HandleArgs(sg.alive), errOutNull \in BOOLEAN,
          hashLen \in {DigestLen - 1, DigestLen, DigestLen + 1} :
         IF handle = "null"
         THEN /\ ret' = NullArg("dkls_sign_last_message", errOutNull, "null handle")
              /\ UNCHANGED sg
         ELSE LET o == dkls_sign_last_message(sg, hashLen)
              IN /\ sg' = o.h
                 /\ ret' = [RetOf("dkls_sign_last_message", sg.round.tag,
                                  errOutNull, o) EXCEPT !.hashLen = hashLen]
    /\ UNCHANGED <<kg, ks, twin, wire, net>>

SignCombine ==
    /\ \E handle \in HandleArgs(sg.alive), errOutNull \in BOOLEAN,
          rNull \in BOOLEAN, sNull \in BOOLEAN :
         IF handle = "null" \/ rNull \/ sNull
         THEN /\ ret' = [NullArg("dkls_sign_combine", errOutNull,
                                 "null handle or output")
                           EXCEPT !.outNull = rNull \/ sNull]
              /\ UNCHANGED sg
         ELSE \E msgs \in (IF sg.round.tag = "WaitMsg4"
                           THEN Batches(Inbound(SignExpects(sg.round.tag)))
                           ELSE {<<>>}) :
              \E eres \in (IF /\ sg.round.tag = "WaitMsg4"
                              /\ DecodeVectorOk("SignMsg4", msgs)
                           THEN SignEngineResults ELSE {"ok"}) :
                LET o == dkls_sign_combine(sg, msgs, eres)
                IN /\ sg' = o.h
                   /\ ret' = [RetOf("dkls_sign_combine", sg.round.tag,
                                    errOutNull, o) EXCEPT !.msgs = msgs]
    /\ UNCHANGED <<kg, ks, twin, wire, net>>

SignFree ==
    /\ \E handle \in HandleArgs(sg.alive) :
         IF handle = "null"
         THEN /\ ret' = Plain("dkls_sign_free", "none", TRUE, <<>>)
              /\ UNCHANGED sg
         ELSE /\ sg' = FreedSign
              /\ ret' = Plain("dkls_sign_free", sg.round.tag, TRUE, <<>>)
    /\ UNCHANGED <<kg, ks, twin, wire, net>>

(* ------------------------------------------------------------------ *)
(* Keyshare actions                                                     *)
(* ------------------------------------------------------------------ *)
KeyshareTag == 31

\* ciborium::into_writer of a dkg::Keyshare
KeyshareEncode(k) ==
    <<KeyshareTag, k.rank_list, k.threshold, k.party_id, k.public_key>>

KeyshareDecodable(bytes) == Len(bytes) = 5 /\ bytes[1] = KeyshareTag

KeyshareDecode(bytes) == Keyshare(bytes[2], bytes[3], bytes[4], bytes[5])

KeyshareBytes == {KeyshareEncode(k) : k \in Keyshares} \cup {<<0>>}

KeyshareFromBytes ==
    /\ ~ks.alive
    /\ \E bytes \in KeyshareBytes :
         IF KeyshareDecodable(bytes)
         THEN /\ ks' = KeyshareHandleNew(KeyshareDecode(bytes))
              /\ ret' = Plain("dkls_keyshare_from_bytes", "none", TRUE, <<>>)
         ELSE /\ ret' = Plain("dkls_keyshare_from_bytes", "none", FALSE, <<>>)
              /\ UNCHANGED ks
    /\ UNCHANGED <<kg, sg, twin, wire, net>>

KeyshareToBytes ==
    /\ \E handle \in HandleArgs(ks.alive) :
         ret' = IF handle = "null"
                THEN Plain("dkls_keyshare_to_bytes", "none", FALSE, <<>>)
                ELSE Plain("dkls_keyshare_to_bytes", "none", TRUE,
                           KeyshareEncode(ks.inner))
    /\ UNCHANGED <<kg, sg, ks, twin, wire, net>>

KeyshareFree ==
    /\ \E handle \in HandleArgs(ks.alive) :
         IF handle = "null"
         THEN /\ ret' = Plain("dkls_keyshare_free", "none", TRUE, <<>>)
              /\ UNCHANGED ks
         ELSE /\ ks' = FreedKeyshare
              /\ ret' = Plain("dkls_keyshare_free", "none", TRUE, <<>>)
    /\ UNCHANGED <<kg, sg, twin, wire, net>>

(* ------------------------------------------------------------------ *)
(* Seeded randomness, and two sessions driven by the same calls         *)
(* ------------------------------------------------------------------ *)
SeedLen == 32
SeedVals == {1, 2}
Entropy == {1, 2}
Nonces == {0, 1}

\* The seed argument: a null pointer, a buffer of 32 bytes, or a buffer of
\* another length.
SeedArgs ==
    {[null |-> TRUE, len |-> 0, val |-> 0]} \cup
    {[null |-> FALSE, len |-> SeedLen, val |-> v] : v \in SeedVals} \cup
    {[null |-> FALSE, len |-> SeedLen - 1, val |-> 1]}

\* `if seed.is_null() || seed_len == 0 { None } else { Some(..) }`
SeedOption(seed) == IF seed.null \/ seed.len = 0 THEN None ELSE Some(seed)

\* Faulty variant: the generator is seeded from thread_rng whatever the seed.
maybe_seeded_rng_unseeded(seed, entropy) == [panic |-> FALSE, stream |-> entropy]

\* maybe_seeded_rng: the stream the generator produces, drawn from the
\* entropy of the system (what thread_rng would give this call) without a
\* seed; a seed that is not 32 bytes long panics.
maybe_seeded_rng(seed, entropy) ==
    IF seed = None THEN [panic |-> FALSE, stream |-> entropy]
    ELSE IF seed[1].len # SeedLen THEN [panic |-> TRUE, stream |-> 0]
    ELSE [panic |-> FALSE, stream |-> seed[1].val]


\* The engine operations that are passed the generator.
UsesRng(proto, op) ==
    \/ op \in {"new", "handle_msg1", "handle_msg2"}
    \/ proto = "dkg" /\ op = "handle_msg3"

\* The content of the messages an engine operation returns, beyond routing.
Seal(out, nonce) ==
    [i \in 1..Len(out) |-> [out[i] EXCEPT !.payload = Append(@, nonce)]]

\* The engine is a function of its context, its input and the stream of the
\* generator it is passed: two operations on equal contexts, with the same
\* input and, when they draw from the generator, the same stream, give the
\* same result.  Nothing else is assumed of it.
EngineAgrees(t, proto, op, rngA, rngB, xA, xB) ==
    (/\ t.sync /\ t.a.kg = t.b.kg /\ t.a.sg = t.b.sg
     /\ UsesRng(proto, op) => rngA = rngB) => xA = xB

\* Whether the two contexts are still equal after calls that returned oA, oB.
NextSync(t, proto, oA, oB, rngA, rngB) ==
    IF oA.engine = "none" /\ oB.engine = "none" THEN t.sync
    ELSE /\ t.sync /\ t.a.kg = t.b.kg /\ t.a.sg = t.b.sg
         /\ oA.engine = oB.engine
         /\ UsesRng(proto, oA.engine) => rngA = rngB

\* Whether the calls so far were all given a seed, and the same one to both.
NextSame(t, seedA, seedB) ==
    t.same /\ seedA = seedB /\ SeedOption(seedA) # None

\* The inbound batches the pair is given.
DetInbound(type) ==
    LET m == MessageNew(ProtoMsg(type, 1, 0))
    IN {<<>>, <<m>>, <<m, m>>, <<m, GarbageMessage>>}

\* One session's half of a call: what the handler returns becomes the state
\* of that world.
DetReturn(w, which, o, nonce) ==
    [w EXCEPT ![which] = o.h, !.out = Seal(o.out, nonce), !.ok = o.ok]

\* dkls_keygen_new in one world
DetKeygenNewIn(w, n, t, pid, rng) ==
    IF rng.panic THEN Aborted
    ELSE [w EXCEPT !.kg = KeygenSessionHandleNew(DkgState(n, t, pid, 0), n),
                   !.out = <<>>, !.ok = TRUE]

\* dkls_keygen_handle_messages in one world: the null check, then the
\* generator, then the round.
DetKeygenHandleOutcome(w, msgs, comm, eres) ==
    IF w.kg.alive
    THEN dkls_keygen_handle_messages(w.kg, msgs, comm, eres, 1)
    ELSE Rejected(w.kg, "null handle")

DetKeygenHandleIn(w, msgs, comm, rng, eres, nonce) ==
    IF ~w.kg.alive THEN [w EXCEPT !.out = <<>>, !.ok = FALSE]
    ELSE IF rng.panic THEN Aborted
    ELSE DetReturn(w, "kg", DetKeygenHandleOutcome(w, msgs, comm, eres), nonce)

\* What the engine may answer a call that reaches it: messages of some
\* content, or one of its errors.
DetEngineChoices(reach, results) ==
    IF reach
    THEN {<<"ok", k>> : k \in Nonces} \cup {<<e, 0>> : e \in results \ {"ok"}}
    ELSE {<<"ok", 0>>}

DetNoSession == \A w \in {twin.a, twin.b} : ~w.kg.alive /\ ~w.sg.alive /\ ~w.dead
DetRunning == ~twin.a.dead /\ ~twin.b.dead

DetKeygenNew ==
    /\ DetNoSession
    /\ \E n \in Participants, pid \in PartyIds, seedA \in SeedArgs, seedB \in SeedArgs :
         \E t \in Thresholds(n), eA \in Entropy, eB \in Entropy :
           LET rA == maybe_seeded_rng(SeedOption(seedA), eA)
               rB == maybe_seeded_rng(SeedOption(seedB), eB)
           IN twin' = Twin(DetKeygenNewIn(twin.a, n, t, pid, rA),
                           DetKeygenNewIn(twin.b, n, t, pid, rB),
                           rA = rB,
                           seedA = seedB /\ SeedOption(seedA) # None)
    /\ UNCHANGED <<kg, sg, ks, ret, wire, net>>

DetKeygenCreateFirstMessage ==
    /\ DetRunning
    /\ twin.a.kg.alive /\ twin.b.kg.alive
    /\ \E nA \in Nonces, nB \in Nonces :
         LET oA == keygen_create_first_message(twin.a.kg)
             oB == keygen_create_first_message(twin.b.kg)
             rng == [panic |-> FALSE, stream |-> 0]
         IN /\ EngineAgrees(twin, "dkg", "generate_msg1", rng, rng,
                            IF oA.ok THEN nA ELSE 0, IF oB.ok THEN nB ELSE 0)
            /\ ~oA.ok => nA = 0
            /\ ~oB.ok => nB = 0
            /\ twin' = Twin(DetReturn(twin.a, "kg", oA, nA),
                            DetReturn(twin.b, "kg", oB, nB),
                            NextSync(twin, "dkg", oA, oB, rng, rng), twin.same)
    /\ UNCHANGED <<kg, sg, ks, ret, wire, net>>

DetKeygenHandleMessages ==
    /\ DetRunning
    /\ twin.a.kg.alive /\ twin.b.kg.alive
    /\ twin.a.kg.round.tag \in {"WaitMsg1", "WaitMsg2", "WaitMsg3", "WaitMsg4"}
    /\ \E seedA \in SeedArgs, seedB \in SeedArgs,
          comm \in {NoCommitments,
                    [null |-> FALSE, len |-> twin.a.kg.n * CommitmentLen]} :
       \E msgs \in DetInbound(KeygenExpects(twin.a.kg.round.tag)),
          eA \in Entropy, eB \in Entropy :
       \E xA \in DetEngineChoices(KeygenReachesEngine(twin.a.kg, msgs, comm),
                                   KeygenEngineResults),
          xB \in DetEngineChoices(KeygenReachesEngine(twin.b.kg, msgs, comm),
                                   KeygenEngineResults) :
         LET eresA == xA[1]
             eresB == xB[1]
             nA == xA[2]
             nB == xB[2]
             rA == maybe_seeded_rng(SeedOption(seedA), eA)
             rB == maybe_seeded_rng(SeedOption(seedB), eB)
             oA == DetKeygenHandleOutcome(twin.a, msgs, comm, eresA)
             oB == DetKeygenHandleOutcome(twin.b, msgs, comm, eresB)
             op == IF oA.engine # "none" THEN oA.engine ELSE oB.engine
         IN /\ EngineAgrees(twin, "dkg", op, rA, rB, xA, xB)
            /\ twin' = Twin(DetKeygenHandleIn(twin.a, msgs, comm, rA, eresA, nA),
                            DetKeygenHandleIn(twin.b, msgs, comm, rB, eresB, nB),
                            NextSync(twin, "dkg", oA, oB, rA, rB),
                            NextSame(twin, seedA, seedB))
    /\ UNCHANGED <<kg, sg, ks, ret, wire, net>>

DetKeygenFree ==
    /\ DetRunning
    /\ twin.a.kg.alive \/ twin.b.kg.alive
    /\ twin' = [twin EXCEPT !.a.kg = FreedKeygen, !.b.kg = FreedKeygen,
                            !.a.out = <<>>, !.b.out = <<>>,
                            !.a.ok = TRUE, !.b.ok = TRUE]
    /\ UNCHANGED <<kg, sg, ks, ret, wire, net>>

\* dkls_sign_new in one world, on a keyshare handle and a well-formed path
DetSignNewIn(w, keyshare, rng, eres) ==
    IF rng.panic THEN Aborted
    ELSE DetReturn(w, "sg",
                   dkls_sign_new(keyshare,
                                 [null |-> FALSE, utf8 |-> TRUE, str |-> <<"m">>],
                                 eres), 0)

DetSignNew ==
    /\ DetNoSession
    /\ \E k \in Keyshares, seedA \in SeedArgs, seedB \in SeedArgs :
       \E eA \in Entropy, eB \in Entropy,
          eresA \in SignEngineResults, eresB \in SignEngineResults :
         LET rA == maybe_seeded_rng(SeedOption(seedA), eA)
             rB == maybe_seeded_rng(SeedOption(seedB), eB)
         IN /\ (rA = rB) => eresA = eresB
            /\ rA.panic => eresA = "ok"
            /\ rB.panic => eresB = "ok"
            /\ twin' = Twin(DetSignNewIn(twin.a, KeyshareHandleNew(k), rA, eresA),
                            DetSignNewIn(twin.b, KeyshareHandleNew(k), rB, eresB),
                            rA = rB,
                            seedA = seedB /\ SeedOption(seedA) # None)
    /\ UNCHANGED <<kg, sg, ks, ret, wire, net>>

DetSignCreateFirstMessage ==
    /\ DetRunning
    /\ twin.a.sg.alive /\ twin.b.sg.alive
    /\ \E nA \in Nonces, nB \in Nonces :
         LET oA == sign_create_first_message(twin.a.sg)
             oB == sign_create_first_message(twin.b.sg)
             rng == [panic |-> FALSE, stream |-> 0]
         IN /\ EngineAgrees(twin, "dsg", "generate_msg1", rng, rng,
                            IF oA.ok THEN nA ELSE 0, IF oB.ok THEN nB ELSE 0)
            /\ ~oA.ok => nA = 0
            /\ ~oB.ok => nB = 0
            /\ twin' = Twin(DetReturn(twin.a, "sg", oA, nA),
                            DetReturn(twin.b, "sg", oB, nB),
                            NextSync(twin, "dsg", oA, oB, rng, rng), twin.same)
    /\ UNCHANGED <<kg, sg, ks, ret, wire, net>>

SignReachesEngine(h, msgs) ==
    /\ h.round.tag \in {"WaitMsg1", "WaitMsg2", "WaitMsg3"}
    /\ DecodeVectorOk(SignExpects(h.round.tag), msgs)

\* dkls_sign_handle_messages in one world
DetSignHandleIn(w, msgs, rng, eres, nonce) ==
    IF ~w.sg.alive THEN [w EXCEPT !.out = <<>>, !.ok = FALSE]
    ELSE IF rng.panic THEN Aborted
    ELSE DetReturn(w, "sg", dkls_sign_handle_messages(w.sg, msgs, eres), nonce)

DetSignHandleMessages ==
    /\ DetRunning
    /\ twin.a.sg.alive /\ twin.b.sg.alive
    /\ twin.a.sg.round.tag \in {"WaitMsg1", "WaitMsg2", "WaitMsg3"}
    /\ \E seedA \in SeedArgs, seedB \in SeedArgs :
       \E msgs \in DetInbound(SignExpects(twin.a.sg.round.tag)),
          eA \in Entropy, eB \in Entropy :
       \E xA \in DetEngineChoices(SignReachesEngine(twin.a.sg, msgs),
                                   SignEngineResults),
          xB \in DetEngineChoices(SignReachesEngine(twin.b.sg, msgs),
                                   SignEngineResults) :
         LET eresA == xA[1]
             eresB == xB[1]
             nA == xA[2]
             nB == xB[2]
             rA == maybe_seeded_rng(SeedOption(seedA), eA)
             rB == maybe_seeded_rng(SeedOption(seedB), eB)
             oA == dkls_sign_handle_messages(twin.a.sg, msgs, eresA)
             oB == dkls_sign_handle_messages(twin.b.sg, msgs, eresB)
             op == IF oA.engine # "none" THEN oA.engine ELSE oB.engine
         IN /\ EngineAgrees(twin, "dsg", op, rA, rB, xA, xB)
            /\ twin' = Twin(DetSignHandleIn(twin.a, msgs, rA, eresA, nA),
                            DetSignHandleIn(twin.b, msgs, rB, eresB, nB),
                            NextSync(twin, "dsg", oA, oB, rA, rB),
                            NextSame(twin, seedA, seedB))
    /\ UNCHANGED <<kg, sg, ks, ret, wire, net>>

DetSignLastMessage ==
    /\ DetRunning
    /\ twin.a.sg.alive /\ twin.b.sg.alive
    /\ \E hashLen \in {DigestLen - 1, DigestLen}, nA \in Nonces, nB \in Nonces :
         LET oA == dkls_sign_last_message(twin.a.sg, hashLen)
             oB == dkls_sign_last_message(twin.b.sg, hashLen)
             rng == [panic |-> FALSE, stream |-> 0]
         IN /\ EngineAgrees(twin, "dsg", "create_partial_signature", rng, rng,
                            IF oA.ok THEN nA ELSE 0, IF oB.ok THEN nB ELSE 0)
            /\ ~oA.ok => nA = 0
            /\ ~oB.ok => nB = 0
            /\ twin' = Twin(DetReturn(twin.a, "sg", oA, nA),
                            DetReturn(twin.b, "sg", oB, nB),
                            NextSync(twin, "dsg", oA, oB, rng, rng), twin.same)
    /\ UNCHANGED <<kg, sg, ks, ret, wire, net>>

DetSignFree ==
    /\ DetRunning
    /\ twin.a.sg.alive \/ twin.b.sg.alive
    /\ twin' = [twin EXCEPT !.a.sg = FreedSign, !.b.sg = FreedSign,
                            !.a.out = <<>>, !.b.out = <<>>,
                            !.a.ok = TRUE, !.b.ok = TRUE]
    /\ UNCHANGED <<kg, sg, ks, ret, wire, net>>

(* ------------------------------------------------------------------ *)
(* Message batches through encode_vector and decode_vector              *)
(* ------------------------------------------------------------------ *)
\* The engine messages of one type, between parties 0 and 1.
CodecMsgs(type) == {ProtoMsg(type, f, t) : f \in 0..1, t \in 0..1}

\* Message::encode_vector on a batch of engine messages of one type
WireEncodeVector ==
    /\ \E type \in KeygenMsgTypes \cup SignMsgTypes :
       \E ms \in Batches(CodecMsgs(type)) :
         wire' = Wire(type, ms, EncodeVector(ms), "encoded", type, TRUE, <<>>)
    /\ UNCHANGED <<kg, sg, ks, ret, twin, net>>

\* Message::decode_vector::<T> on the batch that was encoded, for any T
WireDecodeVector ==
    /\ wire.step = "encoded"
    /\ \E as \in KeygenMsgTypes \cup SignMsgTypes :
         wire' = [wire EXCEPT
                    !.step = "decoded", !.as = as,
                    !.ok = DecodeVectorOk(as, wire.batch),
                    !.got = IF DecodeVectorOk(as, wire.batch)
                            THEN DecodeVector(as, wire.batch) ELSE <<>>]
    /\ UNCHANGED <<kg, sg, ks, ret, twin, net>>

(* ------------------------------------------------------------------ *)
(* Key generation among n parties                                       *)
(* ------------------------------------------------------------------ *)
\* The host's delivery of the Messages a call returned: by the routing fields
\* of each, to_id 255 to every party but the sender, any other to_id to that
\* party.  inbox[i][r] holds what party i - 1 was sent for round r.
Deliver(inbox, out, r) ==
    [i \in 1..Len(inbox) |->
        [inbox[i] EXCEPT ![r] = @ \o
            SelectSeq(out, LAMBDA m :
                /\ m.from_id # i - 1
                /\ m.to_id = BroadcastId \/ m.to_id = i - 1)]]

\* The engine of an honest party accepts a round's batch when it holds one
\* message from every other party, each meant for this party.
NetEngineResult(pid, n, msgs) ==
    IF /\ {m.from_id : m \in {msgs[k] : k \in 1..Len(msgs)}} = (0..(n - 1)) \ {pid}
       /\ Len(msgs) = n - 1
       /\ \A k \in 1..Len(msgs) : msgs[k].to_id \in {BroadcastId, pid}
    THEN "ok" ELSE "InvalidMessage"

RoundNumber(tag) ==
    CASE tag = "WaitMsg1" -> 1 [] tag = "WaitMsg2" -> 2
      [] tag = "WaitMsg3" -> 3 [] tag = "WaitMsg4" -> 4

\* dkls_keygen_new, called by each of n parties with the same n and t
NetStart ==
    /\ net.n = 0
    /\ \E n \in Participants, pk \in PublicKeys :
       \E t \in Thresholds(n) :
         net' = [n |-> n, t |-> t, pk |-> pk,
                 session |-> [i \in 1..n |->
                     KeygenSessionHandleNew(DkgState(n, t, i - 1, 0), n)],
                 inbox |-> [i \in 1..n |-> <<<<>>, <<>>, <<>>, <<>>>>],
                 share |-> [i \in 1..n |-> NoShare]]
    /\ UNCHANGED <<kg, sg, ks, ret, twin, wire>>

\* dkls_keygen_create_first_message by one party; its message is delivered
NetCreateFirstMessage ==
    /\ \E i \in 1..net.n :
         /\ net.session[i].alive /\ net.session[i].round.tag = "Init"
         /\ LET o == keygen_create_first_message(net.session[i])
            IN net' = [net EXCEPT !.session[i] = o.h,
                                  !.inbox = Deliver(@, o.out, 1)]
    /\ UNCHANGED <<kg, sg, ks, ret, twin, wire>>

\* dkls_keygen_handle_messages by one party, once a message from each of the
\* others has been delivered for its round; what it returns is delivered for
\* the next round.
NetHandleMessages ==
    /\ \E i \in 1..net.n :
         /\ net.session[i].alive
         /\ net.session[i].round.tag \in {"WaitMsg1", "WaitMsg2", "WaitMsg3", "WaitMsg4"}
         /\ LET h == net.session[i]
                r == RoundNumber(h.round.tag)
                msgs == net.inbox[i][r]
                eres == IF DecodeVectorOk(KeygenExpects(h.round.tag), msgs)
                        THEN NetEngineResult(i - 1, net.n,
                                 DecodeVector(KeygenExpects(h.round.tag), msgs))
                        ELSE "ok"
                o == dkls_keygen_handle_messages(
                         h, msgs, [null |-> FALSE, len |-> net.n * CommitmentLen],
                         eres, net.pk)
            IN /\ Len(msgs) >= net.n - 1
               /\ net' = [net EXCEPT
                            !.session[i] = o.h,
                            !.inbox = IF r < 4
                                      THEN Deliver([@ EXCEPT ![i][r] = <<>>], o.out, r + 1)
                                      ELSE [@ EXCEPT ![i][r] = <<>>]]
    /\ UNCHANGED <<kg, sg, ks, ret, twin, wire>>

\* dkls_keygen_keyshare by a party whose session completed
NetKeyshare ==
    /\ \E i \in 1..net.n :
         /\ net.session[i].alive /\ net.session[i].round.tag = "Share"
         /\ LET o == dkls_keygen_keyshare(net.session[i])
            IN net' = [net EXCEPT !.session[i] = o.h,
                                  !.share[i] = net.session[i].round.share]
    /\ UNCHANGED <<kg, sg, ks, ret, twin, wire>>

(* ------------------------------------------------------------------ *)
(* Specification                                                        *)
(* ------------------------------------------------------------------ *)
Next ==
    \/ KeygenNew
    \/ KeygenInitKeyRotation
    \/ KeygenInitKeyRecovery
    \/ KeygenInitLostShareRecovery
    \/ KeygenToBytes
    \/ KeygenFromBytes
    \/ KeygenCreateFirstMessage
    \/ KeygenCalculateCommitment2
    \/ KeygenHandleMessages
    \/ KeygenKeyshare
    \/ KeygenFree
    \/ SignNew
    \/ SignToBytes
    \/ SignFromBytes
    \/ SignCreateFirstMessage
    \/ SignHandleMessages
    \/ SignLastMessage
    \/ SignCombine
    \/ SignFree
    \/ KeyshareFromBytes
    \/ KeyshareToBytes
    \/ KeyshareFree

Spec == Init /\ [][Next]_vars

\* A batch that decodes as `type`: one message of party 1.
GoodBatch(type) == <<MessageNew(ProtoMsg(type, 1, 0))>>

\* The call a host that keeps its keygen session going makes next: the first
\* message in Init, a round-advance with a batch that decodes (and the
\* commitments of all parties in round 3) in WaitMsg1..WaitMsg4.
KeygenExpectedCall ==
    /\ kg.alive
    /\ \/ kg.round.tag = "Init" /\ KeygenCreateFirstMessage
       \/ /\ kg.round.tag \in {"WaitMsg1", "WaitMsg2", "WaitMsg3", "WaitMsg4"}
          /\ \E eres \in KeygenEngineResults, errOutNull \in BOOLEAN,
                pk \in PublicKeys :
               LET msgs == GoodBatch(KeygenExpects(kg.round.tag))
                   comm == IF kg.round.tag = "WaitMsg3"
                           THEN [null |-> FALSE, len |-> kg.n * CommitmentLen]
                           ELSE NoCommitments
                   o == dkls_keygen_handle_messages(kg, msgs, comm, eres, pk)
               IN /\ kg' = o.h
                  /\ ret' = [RetOf("dkls_keygen_handle_messages", kg.round.tag,
                                   errOutNull, o)
                                 EXCEPT !.msgs = msgs, !.comm = comm]
          /\ UNCHANGED <<sg, ks, twin, wire, net>>

\* The same for a sign session: the first message in Init, a round-advance
\* with a batch that decodes in WaitMsg1..WaitMsg3, a digest of 32 bytes in
\* Pre, and combine with both output buffers and a batch that decodes in
\* WaitMsg4.
SignExpectedCall ==
    /\ sg.alive
    /\ \/ sg.round.tag = "Init" /\ SignCreateFirstMessage
       \/ /\ sg.round.tag \in {"WaitMsg1", "WaitMsg2", "WaitMsg3"}
          /\ \E eres \in SignEngineResults, errOutNull \in BOOLEAN :
               LET msgs == GoodBatch(SignExpects(sg.round.tag))
                   o == dkls_sign_handle_messages(sg, msgs, eres)
               IN /\ sg' = o.h
                  /\ ret' = [RetOf("dkls_sign_handle_messages", sg.round.tag,
                                   errOutNull, o) EXCEPT !.msgs = msgs]
          /\ UNCHANGED <<kg, ks, twin, wire, net>>
       \/ sg.round.tag = "Pre" /\ SignLastMessage /\ ret'.hashLen = DigestLen
       \/ /\ sg.round.tag = "WaitMsg4"
          /\ \E eres \in SignEngineResults, errOutNull \in BOOLEAN :
               LET msgs == GoodBatch("SignMsg4")
                   o == dkls_sign_combine(sg, msgs, eres)
               IN /\ sg' = o.h
                  /\ ret' = [RetOf("dkls_sign_combine", sg.round.tag,
                                   errOutNull, o) EXCEPT !.msgs = msgs]
          /\ UNCHANGED <<kg, ks, twin, wire, net>>

\* A host that keeps the session it has going: it creates a session, makes
\* the next expected call on it, takes the keyshare out or releases it, and
\* does not put off the next expected call for ever.
NextLive ==
    \/ KeygenNew
    \/ KeygenExpectedCall
    \/ KeygenKeyshare
    \/ KeygenFree
    \/ SignNew
    \/ SignExpectedCall
    \/ SignFree
    \/ KeyshareFree

SpecLive ==
    /\ Init /\ [][NextLive]_vars
    /\ WF_vars(KeygenExpectedCall) /\ WF_vars(SignExpectedCall)

\* Two sessions given the same calls, each with its own seeds.
NextDet ==
    \/ DetKeygenNew
    \/ DetKeygenCreateFirstMessage
    \/ DetKeygenHandleMessages
    \/ DetKeygenFree
    \/ DetSignNew
    \/ DetSignCreateFirstMessage
    \/ DetSignHandleMessages
    \/ DetSignLastMessage
    \/ DetSignFree

SpecDet == Init /\ [][NextDet]_vars

\* ---------------------------------------------------------------------------
\* One process and the seeds a host may pass it: every length, every round.
\* ---------------------------------------------------------------------------

\* The seed arguments of a call: those above, a non-null pointer with length
\* zero, and a seed one byte too long.
SeedCallArgs ==
    SeedArgs \cup {[null |-> FALSE, len |-> 0, val |-> 1],
                   [null |-> FALSE, len |-> SeedLen + 1, val |-> 1]}

\* The world after a call that was passed a seed
Called(w2, op, seed, w, argsOk, entropy, rng) ==
    [w2 EXCEPT !.call = [op |-> op, seed |-> seed, kg0 |-> w.kg.round.tag,
                         sg0 |-> w.sg.round.tag, argsOk |-> argsOk,
                         entropy |-> entropy, rng |-> rng]]

\* The world after a call that takes no seed
Uncalled(w2) == [w2 EXCEPT !.call = NoCall]

SeedIdle == ~twin.a.dead /\ ~twin.a.kg.alive /\ ~twin.a.sg.alive

SeedKeygenNew ==
    /\ SeedIdle
    /\ \E n \in Participants, pid \in PartyIds, seed \in SeedCallArgs :
         \E t \in Thresholds(n), e \in Entropy :
           LET rng == maybe_seeded_rng(SeedOption(seed), e)
           IN twin' = [twin EXCEPT !.a =
                         Called(DetKeygenNewIn(twin.a, n, t, pid, rng),
                                "dkls_keygen_new", seed, twin.a, TRUE, e, rng)]
    /\ UNCHANGED <<kg, sg, ks, ret, wire, net>>

SeedKeygenCreateFirstMessage ==
    /\ ~twin.a.dead /\ twin.a.kg.alive
    /\ twin' = [twin EXCEPT !.a =
                  Uncalled(DetReturn(twin.a, "kg",
                                     keygen_create_first_message(twin.a.kg), 0))]
    /\ UNCHANGED <<kg, sg, ks, ret, wire, net>>

\* dkls_keygen_handle_messages, on a null handle or a session in any round
SeedKeygenHandleMessages ==
    /\ ~twin.a.dead /\ ~twin.a.sg.alive
    /\ \E seed \in SeedCallArgs, e \in Entropy,
          comm \in {NoCommitments,
                    [null |-> FALSE, len |-> twin.a.kg.n * CommitmentLen]} :
       \E msgs \in (IF twin.a.kg.round.tag \in
                        {"WaitMsg1", "WaitMsg2", "WaitMsg3", "WaitMsg4"}
                    THEN DetInbound(KeygenExpects(twin.a.kg.round.tag))
                    ELSE {<<>>}) :
       \E x \in DetEngineChoices(/\ twin.a.kg.alive
                                 /\ KeygenReachesEngine(twin.a.kg, msgs, comm),
                                 KeygenEngineResults) :
         LET rng == maybe_seeded_rng(SeedOption(seed), e)
         IN twin' = [twin EXCEPT !.a =
                       Called(DetKeygenHandleIn(twin.a, msgs, comm, rng, x[1], x[2]),
                              "dkls_keygen_handle_messages", seed, twin.a, TRUE,
                              e, rng)]
    /\ UNCHANGED <<kg, sg, ks, ret, wire, net>>

SeedKeygenFree ==
    /\ ~twin.a.dead /\ twin.a.kg.alive
    /\ twin' = [twin EXCEPT !.a =
                  Uncalled([twin.a EXCEPT !.kg = FreedKeygen, !.out = <<>>,
                                          !.ok = TRUE])]
    /\ UNCHANGED <<kg, sg, ks, ret, wire, net>>

\* dkls_sign_new in one world: the keyshare and the path are checked before
\* the generator is made.
SeedSignNewIn(w, keyshareNull, keyshare, path, rng, eres) ==
    IF keyshareNull THEN [w EXCEPT !.out = <<>>, !.ok = FALSE]
    ELSE IF c_str_to_string_error(path) # "" \/ ~DerivationPathOk(path.str)
    THEN DetReturn(w, "sg", dkls_sign_new(keyshare, path, "ok"), 0)
    ELSE DetSignNewIn(w, keyshare, rng, eres)

SeedSignNew ==
    /\ SeedIdle
    /\ \E k \in Keyshares, keyshareNull \in BOOLEAN, seed \in SeedCallArgs,
          path \in {[null |-> TRUE, utf8 |-> TRUE, str |-> <<>>],
                    [null |-> FALSE, utf8 |-> TRUE, str |-> <<"0">>],
                    [null |-> FALSE, utf8 |-> TRUE, str |-> <<"m">>]} :
       \E e \in Entropy, eres \in SignEngineResults :
         LET rng == maybe_seeded_rng(SeedOption(seed), e)
             argsOk == /\ ~keyshareNull
                       /\ c_str_to_string_error(path) = ""
                       /\ DerivationPathOk(path.str)
         IN /\ (~argsOk \/ rng.panic) => eres = "ok"
            /\ twin' = [twin EXCEPT !.a =
                          Called(SeedSignNewIn(twin.a, keyshareNull,
                                               KeyshareHandleNew(k), path, rng, eres),
                                 "dkls_sign_new", seed, twin.a, argsOk, e, rng)]
    /\ UNCHANGED <<kg, sg, ks, ret, wire, net>>

SeedSignCreateFirstMessage ==
    /\ ~twin.a.dead /\ twin.a.sg.alive
    /\ twin' = [twin EXCEPT !.a =
                  Uncalled(DetReturn(twin.a, "sg",
                                     sign_create_first_message(twin.a.sg), 0))]
    /\ UNCHANGED <<kg, sg, ks, ret, wire, net>>

\* dkls_sign_handle_messages, on a null handle or a session in any round
SeedSignHandleMessages ==
    /\ ~twin.a.dead /\ ~twin.a.kg.alive
    /\ \E seed \in SeedCallArgs, e \in Entropy :
       \E msgs \in (IF twin.a.sg.round.tag \in {"WaitMsg1", "WaitMsg2", "WaitMsg3"}
                    THEN DetInbound(SignExpects(twin.a.sg.round.tag))
                    ELSE {<<>>}) :
       \E x \in DetEngineChoices(twin.a.sg.alive /\ SignReachesEngine(twin.a.sg, msgs),
                                 SignEngineResults) :
         LET rng == maybe_seeded_rng(SeedOption(seed), e)
         IN twin' = [twin EXCEPT !.a =
                       Called(DetSignHandleIn(twin.a, msgs, rng, x[1], x[2]),
                              "dkls_sign_handle_messages", seed, twin.a, TRUE,
                              e, rng)]
    /\ UNCHANGED <<kg, sg, ks, ret, wire, net>>

SeedSignLastMessage ==
    /\ ~twin.a.dead /\ twin.a.sg.alive
    /\ twin' = [twin EXCEPT !.a =
                  Uncalled(DetReturn(twin.a, "sg",
                                     dkls_sign_last_message(twin.a.sg, DigestLen), 0))]
    /\ UNCHANGED <<kg, sg, ks, ret, wire, net>>

SeedSignFree ==
    /\ ~twin.a.dead /\ twin.a.sg.alive
    /\ twin' = [twin EXCEPT !.a =
                  Uncalled([twin.a EXCEPT !.sg = FreedSign, !.out = <<>>,
                                          !.ok = TRUE])]
    /\ UNCHANGED <<kg, sg, ks, ret, wire, net>>

NextSeed ==
    \/ SeedKeygenNew
    \/ SeedKeygenCreateFirstMessage
    \/ SeedKeygenHandleMessages
    \/ SeedKeygenFree
    \/ SeedSignNew
    \/ SeedSignCreateFirstMessage
    \/ SeedSignHandleMessages
    \/ SeedSignLastMessage
    \/ SeedSignFree

SpecSeed == Init /\ [][NextSeed]_vars

\* Batches of engine messages encoded and decoded again.
NextCodec ==
    \/ WireEncodeVector
    \/ WireDecodeVector

SpecCodec == Init /\ [][NextCodec]_vars

\* n parties generating a key; each makes its next call when it can.
NextNet ==
    \/ NetStart
    \/ NetCreateFirstMessage
    \/ NetHandleMessages
    \/ NetKeyshare

SpecNet == Init /\ [][NextNet]_vars /\ WF_vars(NextNet)

(* ------------------------------------------------------------------ *)
(* Properties                                                           *)
(* ------------------------------------------------------------------ *)
KeygenOrder == <<"Init", "WaitMsg1", "WaitMsg2", "WaitMsg3", "WaitMsg4", "Share">>
SignOrder == <<"Init", "WaitMsg1", "WaitMsg2", "WaitMsg3", "Pre", "WaitMsg4">>

\* b is the round that follows a in the order.
Follows(order, a, b) ==
    \E i \in 1..(Len(order) - 1) : order[i] = a /\ order[i + 1] = b

\* C1: a live keygen session changes round only to the next round of
\* Init, WaitMsg1, WaitMsg2, WaitMsg3, WaitMsg4, Share or to Failed; a
\* successful create-first-message is the step out of Init, a successful
\* round-advance is the step out of a WaitMsg round, and no step along the
\* order is taken by anything but those successful calls.
C1_KeygenRoundOrder ==
    [][(kg.alive /\ kg'.alive) =>
        /\ kg'.round.tag # kg.round.tag =>
              \/ Follows(KeygenOrder, kg.round.tag, kg'.round.tag)
              \/ kg'.round.tag = "Failed"
        /\ (ret'.op = "dkls_keygen_create_first_message" /\ ret'.ok) =>
              kg.round.tag = "Init" /\ kg'.round.tag = "WaitMsg1"
        /\ (ret'.op = "dkls_keygen_handle_messages" /\ ret'.ok) =>
              /\ kg.round.tag \in {"WaitMsg1", "WaitMsg2", "WaitMsg3", "WaitMsg4"}
              /\ Follows(KeygenOrder, kg.round.tag, kg'.round.tag)
        /\ Follows(KeygenOrder, kg.round.tag, kg'.round.tag) =>
              /\ ret'.ok
              /\ ret'.op = IF kg.round.tag = "Init"
                           THEN "dkls_keygen_create_first_message"
                           ELSE "dkls_keygen_handle_messages"
      ]_vars

C1_Witness ==
    /\ kg.alive /\ kg.round.tag = "Share"
    /\ ret.op = "dkls_keygen_handle_messages" /\ ret.ok
    /\ kg.state.calls =
         <<"generate_msg1", "handle_msg1", "handle_msg2", "handle_msg3", "handle_msg4">>

\* C2: a live sign session changes round only to the next round of Init,
\* WaitMsg1, WaitMsg2, WaitMsg3, Pre, WaitMsg4 or to Failed, one step per
\* successful first-message, round-advance or digest call; the last step, to
\* Finished, is a successful combine, which is made from WaitMsg4 only and
\* ends the session; no live session is left in Finished.
C2_SignRoundOrder ==
    [][/\ (sg.alive /\ sg'.alive) =>
            /\ sg'.round.tag # sg.round.tag =>
                  \/ Follows(SignOrder, sg.round.tag, sg'.round.tag)
                  \/ sg'.round.tag = "Failed"
            /\ (ret'.op = "dkls_sign_create_first_message" /\ ret'.ok) =>
                  sg.round.tag = "Init" /\ sg'.round.tag = "WaitMsg1"
            /\ (ret'.op = "dkls_sign_handle_messages" /\ ret'.ok) =>
                  /\ sg.round.tag \in {"WaitMsg1", "WaitMsg2", "WaitMsg3"}
                  /\ Follows(SignOrder, sg.round.tag, sg'.round.tag)
            /\ (ret'.op = "dkls_sign_last_message" /\ ret'.ok) =>
                  sg.round.tag = "Pre" /\ sg'.round.tag = "WaitMsg4"
            /\ Follows(SignOrder, sg.round.tag, sg'.round.tag) =>
                  /\ ret'.ok
                  /\ ret'.op = CASE sg.round.tag = "Init" ->
                                      "dkls_sign_create_first_message"
                                 [] sg.round.tag = "Pre" -> "dkls_sign_last_message"
                                 [] OTHER -> "dkls_sign_handle_messages"
       /\ (ret'.op = "dkls_sign_combine" /\ ret'.ok) =>
            sg.alive /\ sg.round.tag = "WaitMsg4" /\ ~sg'.alive
       /\ sg'.alive => sg'.round.tag \in SignRounds \ {"Finished"}
      ]_vars

C2_Witness ==
    /\ ret.op = "dkls_sign_combine" /\ ret.ok /\ ret.round0 = "WaitMsg4"
    /\ ~sg.alive

\* C3: once the round of a keygen or sign session is Failed, every call that
\* leaves the session alive leaves its round Failed.
C3_FailedAbsorbing ==
    [][/\ (kg.alive /\ kg.round.tag = "Failed" /\ kg'.alive) =>
            kg'.round.tag = "Failed"
       /\ (sg.alive /\ sg.round.tag = "Failed" /\ sg'.alive) =>
            sg'.round.tag = "Failed"
      ]_vars

C3_Witness ==
    /\ ret.op = "dkls_sign_last_message" /\ ret.round0 = "Failed"
    /\ ret.hashLen = DigestLen
    /\ sg.alive /\ sg.round.tag = "Failed"

\* C4: when the engine rejects a round during a round-advance call, whatever
\* the class of its error, the session is left in Failed, the call reports
\* failure and the error stored is the engine's error.
C4_EngineRejectionFails ==
    /\ (ret.op = "dkls_keygen_handle_messages" /\ ret.eres \in KeygenErrors) =>
          /\ kg.alive /\ kg.round.tag = "Failed"
          /\ ~ret.ok
          /\ ~ret.errOutNull =>
                ret.err = GoErrorNew(ErrorToString(ret.eres), CodeGeneric)
    /\ (ret.op = "dkls_sign_handle_messages" /\ ret.eres \in SignErrors) =>
          /\ sg.alive /\ sg.round.tag = "Failed"
          /\ ~ret.ok
          /\ ~ret.errOutNull => ret.err.message = ErrorToString(ret.eres)

C4_Witness ==
    /\ ret.op = "dkls_keygen_handle_messages" /\ ret.round0 = "WaitMsg2"
    /\ ret.eres = "InvalidCommitmentHash"
    /\ kg.round.tag = "Failed"
    /\ ret.err.message = "invalid commitment hash"

\* Whether the round-advance call recorded in ret got as far as decoding its
\* batch and the batch holds a message that does not decode.
KeygenDecodeFailed ==
    /\ ret.op = "dkls_keygen_handle_messages"
    /\ ret.round0 \in {"WaitMsg1", "WaitMsg2", "WaitMsg3", "WaitMsg4"}
    /\ ret.round0 = "WaitMsg3" =>
          ~ret.comm.null /\ ret.comm.len # 0 /\ ret.comm.len = kg.n * CommitmentLen
    /\ ~DecodeVectorOk(KeygenExpects(ret.round0), ret.msgs)

SignDecodeFailed ==
    /\ ret.op = "dkls_sign_handle_messages"
    /\ ret.round0 \in {"WaitMsg1", "WaitMsg2", "WaitMsg3"}
    /\ ~DecodeVectorOk(SignExpects(ret.round0), ret.msgs)

\* C5 (as the specification states it): a decode error detected during a round-advance call, in
\* any round of a keygen or sign session, leaves the session in Failed.
C5_DecodeErrorFails ==
    /\ KeygenDecodeFailed => kg.alive /\ kg.round.tag = "Failed"
    /\ SignDecodeFailed => sg.alive /\ sg.round.tag = "Failed"

InvalidStateTexts == {"invalid state", "invalid session state"}

KeygenNoInbound == {"Init", "Share", "Failed"}
SignNoInbound == {"Init", "Pre", "WaitMsg4", "Failed"}

\* C6 (as the specification states it): a round-advance call on a session whose round accepts no
\* inbound messages fails with the invalid-state error and leaves the round
\* as it was.
C6_WrongRoundInvalidState ==
    /\ (ret.op = "dkls_keygen_handle_messages" /\ ret.round0 \in KeygenNoInbound) =>
          /\ ~ret.ok /\ kg.alive /\ kg.round.tag = ret.round0
          /\ ~ret.errOutNull => ret.err.message \in InvalidStateTexts
    /\ (ret.op = "dkls_sign_handle_messages" /\ ret.round0 \in SignNoInbound) =>
          /\ ~ret.ok /\ sg.alive /\ sg.round.tag = ret.round0
          /\ ~ret.errOutNull => ret.err.message \in InvalidStateTexts

\* The error a round-advance call reports for a round that takes no messages.
WrongRoundError(proto, tag) ==
    IF tag # "Failed" THEN GoErrorNew("invalid session state", CodeGeneric)
    ELSE IF proto = "dkg" THEN GoErrorNew("failed session", CodeGeneric)
    ELSE GoErrorNew("failed", CodeGeneric)

\* C6 (amended): a round-advance call on a session whose round accepts no
\* inbound messages fails without calling the engine and leaves the session
\* exactly as it was; the error, of code 1, is "invalid session state" for
\* keygen Init and Share and sign Init, Pre and WaitMsg4, and for Failed it is
\* "failed session" (keygen) or "failed" (sign).
C6_WrongRoundRejected ==
    [][/\ (ret'.op = "dkls_keygen_handle_messages" /\ kg.alive
              /\ kg.round.tag \in KeygenNoInbound) =>
            /\ ~ret'.ok /\ ret'.engine = "none" /\ kg' = kg
            /\ ~ret'.errOutNull => ret'.err = WrongRoundError("dkg", kg.round.tag)
       /\ (ret'.op = "dkls_sign_handle_messages" /\ sg.alive
              /\ sg.round.tag \in SignNoInbound) =>
            /\ ~ret'.ok /\ ret'.engine = "none" /\ sg' = sg
            /\ ~ret'.errOutNull => ret'.err = WrongRoundError("dsg", sg.round.tag)
      ]_vars

C6_Witness ==
    /\ ret.op = "dkls_keygen_handle_messages" /\ ret.round0 = "Share"
    /\ kg.alive /\ kg.round.tag = "Share"
    /\ ret.err = GoErrorNew("invalid session state", CodeGeneric)

\* How often the engine operation op was applied to a session.
Applied(h, op) == Cardinality({i \in 1..Len(h.state.calls) : h.state.calls[i] = op})

\* C7: produce-first-message succeeds exactly from Init, where it moves the
\* round to WaitMsg1 and returns one broadcast message; from any other round
\* it stores the error "invalid state" and leaves the session as it was; the
\* first message of a session is generated at most once.
C7_FirstMessageOnce ==
    [][/\ (ret'.op = "dkls_keygen_create_first_message" /\ kg.alive) =>
            /\ ret'.ok <=> kg.round.tag = "Init"
            /\ ret'.ok =>
                  /\ kg'.alive /\ kg'.round.tag = "WaitMsg1"
                  /\ Len(ret'.out) = 1 /\ ret'.out[1].to_id = BroadcastId
            /\ ~ret'.ok =>
                  /\ kg' = kg /\ ret'.out = <<>>
                  /\ ~ret'.errOutNull =>
                        ret'.err = GoErrorNew("invalid state", CodeGeneric)
       /\ (ret'.op = "dkls_sign_create_first_message" /\ sg.alive) =>
            /\ ret'.ok <=> sg.round.tag = "Init"
            /\ ret'.ok =>
                  /\ sg'.alive /\ sg'.round.tag = "WaitMsg1"
                  /\ Len(ret'.out) = 1 /\ ret'.out[1].to_id = BroadcastId
            /\ ~ret'.ok =>
                  /\ sg' = sg /\ ret'.out = <<>>
                  /\ ~ret'.errOutNull =>
                        ret'.err = GoErrorNew("invalid state", CodeGeneric)
       /\ Applied(kg', "generate_msg1") <= 1
       /\ Applied(sg', "generate_msg1") <= 1
      ]_vars

C7_Witness ==
    /\ ret.op = "dkls_keygen_create_first_message" /\ ret.round0 = "WaitMsg1"
    /\ ~ret.ok /\ ret.err.message = "invalid state"
    /\ kg.round.tag = "WaitMsg1" /\ Applied(kg, "generate_msg1") = 1

\* C8: in keygen round WaitMsg3 a commitments buffer that is missing or whose
\* length is not n * 32 is rejected without calling the engine, with one of
\* the two commitments errors (code 1), and the session is left exactly as it
\* was, in WaitMsg3; n is the rank-list length of the keyshare for rotation
\* and recovery sessions and the participant count otherwise.
C8_CommitmentsChecked ==
    [][/\ (/\ ret'.op = "dkls_keygen_handle_messages"
           /\ kg.alive /\ kg.round.tag = "WaitMsg3"
           /\ ret'.comm.null \/ ret'.comm.len # kg.n * CommitmentLen) =>
            /\ ~ret'.ok /\ ret'.engine = "none" /\ ret'.eres = "none"
            /\ kg' = kg
            /\ ~ret'.errOutNull =>
                  /\ ret'.err.message \in
                        {"commitments required", "invalid commitments length"}
                  /\ ret'.err.code = CodeGeneric
       /\ (/\ ret'.op \in {"dkls_keygen_init_key_rotation",
                           "dkls_keygen_init_key_recovery"}
           /\ ret'.ok) => kg'.n = ks.inner.rank_list
       /\ (/\ ret'.op \in {"dkls_keygen_new", "dkls_keygen_init_lost_share_recovery"}
           /\ ret'.ok) => kg'.n = kg'.state.ranks /\ kg'.n \in Participants
       /\ (kg.alive /\ kg'.alive) => kg'.n = kg.n
      ]_vars

C8_Witness ==
    /\ ret.op = "dkls_keygen_handle_messages" /\ ret.round0 = "WaitMsg3"
    /\ ~ret.comm.null /\ ret.comm.len = (kg.n + 1) * CommitmentLen
    /\ ret.err.message = "invalid commitments length"
    /\ kg.alive /\ kg.round.tag = "WaitMsg3"

\* C9: extract-keyshare returns a keyshare exactly when the round is Share;
\* the keyshare returned is the one the round holds and the session is
\* destroyed by the call; a session enters Share only by a successful
\* round-advance from WaitMsg4 in which the engine completed the keyshare.
C9_KeyshareOnlyFromShare ==
    [][/\ (ret'.op = "dkls_keygen_keyshare" /\ kg.alive) =>
            /\ ret'.ok <=> kg.round.tag = "Share"
            /\ ret'.ok =>
                  /\ ~kg'.alive
                  /\ ks'.alive /\ ks'.inner = kg.round.share
            /\ ~ret'.ok => ks' = ks
       /\ (/\ kg'.alive /\ kg'.round.tag = "Share"
           /\ ~(kg.alive /\ kg.round.tag = "Share")) =>
            /\ kg.alive /\ kg.round.tag = "WaitMsg4"
            /\ ret'.op = "dkls_keygen_handle_messages" /\ ret'.ok
            /\ ret'.engine = "handle_msg4" /\ ret'.eres = "ok"
      ]_vars

C9_Witness ==
    /\ ret.op = "dkls_keygen_keyshare" /\ ret.round0 = "Share" /\ ret.ok
    /\ ~kg.alive /\ ks.alive

FailedSessionTexts == {"failed", "failed session"}
InProgressTexts == {"keygen-in-progress", "keygen in progress", "in progress"}

\* C10 (as the specification states it): extract-keyshare on a Failed session reports the
\* failed-session error, on a session in Init or a WaitMsg round it reports
\* the in-progress error, and in both cases the session handle is destroyed.
C10_ExtractErrorDestroys ==
    /\ (ret.op = "dkls_keygen_keyshare" /\ ret.round0 = "Failed") =>
          /\ ~ret.ok /\ ~kg.alive
          /\ ~ret.errOutNull => ret.err.message \in FailedSessionTexts
    /\ (/\ ret.op = "dkls_keygen_keyshare"
        /\ ret.round0 \in {"Init", "WaitMsg1", "WaitMsg2", "WaitMsg3", "WaitMsg4"}) =>
          /\ ~ret.ok /\ ~kg.alive
          /\ ~ret.errOutNull => ret.err.message \in InProgressTexts

\* C11 (as the specification states it): after any call to combine on a live
\* sign session handle, missing output buffers included, the handle is
\* destroyed.
C11_CombineAlwaysConsumes ==
    [][(sg.alive /\ ret'.op = "dkls_sign_combine") => ~sg'.alive]_vars

\* C11 (amended): a call to combine on a live sign session handle whose two
\* output buffers are present destroys the handle whatever the outcome
\* (success, decode failure, combination failure, wrong round); a call with a
\* missing output buffer fails with "null handle or output" and leaves the
\* session as it was.
C11_CombineConsumes ==
    [][(sg.alive /\ ret'.op = "dkls_sign_combine") =>
          IF ret'.outNull
          THEN /\ sg' = sg /\ ~ret'.ok
               /\ ~ret'.errOutNull =>
                     ret'.err = GoErrorNew("null handle or output", CodeGeneric)
          ELSE ~sg'.alive
      ]_vars

C11_Witness ==
    /\ ret.op = "dkls_sign_combine" /\ ret.round0 = "WaitMsg4"
    /\ ~ret.outNull /\ ~ret.ok /\ ret.eres \in SignErrors
    /\ ~sg.alive

\* C12: supplying a digest to a live sign session is rejected with the session
\* unchanged whenever the digest length is not 32, in any round; with a
\* 32-byte digest it is rejected with "invalid state", the round and the
\* pre-signature or partial signature it holds unchanged, whenever the round
\* is not Pre; only a 32-byte digest in round Pre consumes the pre-signature,
\* returns one broadcast message and moves the round to WaitMsg4.
C12_DigestSupply ==
    [][(sg.alive /\ ret'.op = "dkls_sign_last_message") =>
          /\ ret'.hashLen # DigestLen =>
                /\ ~ret'.ok /\ sg' = sg /\ ret'.out = <<>>
                /\ ret'.engine = "none"
          /\ (ret'.hashLen = DigestLen /\ sg.round.tag # "Pre") =>
                /\ ~ret'.ok /\ sg' = sg /\ ret'.out = <<>>
                /\ ~ret'.errOutNull =>
                      ret'.err = GoErrorNew("invalid state", CodeGeneric)
          /\ (ret'.hashLen = DigestLen /\ sg.round.tag = "Pre") =>
                /\ ret'.ok /\ sg'.alive /\ sg'.round.tag = "WaitMsg4"
                /\ sg'.round.data # sg.round.data
                /\ Len(ret'.out) = 1 /\ ret'.out[1].to_id = BroadcastId
          /\ ret'.ok => (ret'.hashLen = DigestLen /\ sg.round.tag = "Pre")
      ]_vars

C12_Witness ==
    /\ ret.op = "dkls_sign_last_message" /\ ret.round0 = "Pre"
    /\ ret.hashLen # DigestLen /\ ~ret.ok
    /\ sg.alive /\ sg.round = SPre("pre")

\* C13: the last round-advance of each protocol returns no messages and keeps
\* its artifact in the round: from keygen WaitMsg4 a successful call returns
\* an empty list and leaves Share holding the keyshare the engine completed;
\* from sign WaitMsg3 a successful call returns an empty list and leaves Pre
\* holding the pre-signature; a failed call of either leaves Failed.
C13_TerminalAdvance ==
    [][/\ (kg.alive /\ kg.round.tag = "WaitMsg4"
              /\ ret'.op = "dkls_keygen_handle_messages") =>
            /\ kg'.alive /\ ret'.out = <<>>
            /\ IF ret'.ok
               THEN /\ kg'.round.tag = "Share"
                    /\ kg'.round.share \in Keyshares
                    /\ kg'.round.share.rank_list = kg.n
                    /\ ret'.engine = "handle_msg4"
               ELSE kg'.round = KRound("Failed")
       /\ (sg.alive /\ sg.round.tag = "WaitMsg3"
              /\ ret'.op = "dkls_sign_handle_messages") =>
            /\ sg'.alive /\ ret'.out = <<>>
            /\ IF ret'.ok
               THEN sg'.round = SPre("pre") /\ ret'.engine = "handle_msg3"
               ELSE sg'.round = SRound("Failed")
      ]_vars

C13_Witness ==
    /\ ret.op = "dkls_sign_handle_messages" /\ ret.round0 = "WaitMsg3"
    /\ ret.ok /\ ret.out = <<>> /\ Len(ret.msgs) > 0
    /\ sg.alive /\ sg.round = SPre("pre")

\* C14: the error code 2 is reported only when the sign protocol engine
\* rejected a round operation or the combination with its abort-and-ban
\* class; every other error any operation reports carries the code 1.
C14_AbortCodeOnlyFromEngine ==
    ret.err # NoError =>
        /\ ret.err.code \in {CodeGeneric, CodeAbortBan}
        /\ ret.err.code = CodeAbortBan =>
              /\ ret.op \in {"dkls_sign_handle_messages", "dkls_sign_combine"}
              /\ ret.engine \in {"handle_msg1", "handle_msg2", "handle_msg3",
                                  "combine_signatures"}
              /\ ret.eres = "AbortProtocolAndBanParty"

C14_Witness ==
    /\ ret.op = "dkls_sign_combine" /\ ret.err.code = CodeAbortBan
    /\ ret.eres = "AbortProtocolAndBanParty"

\* The exported functions that take an error out-parameter.
ErrOutOps ==
    {"dkls_keygen_init_key_rotation", "dkls_keygen_init_key_recovery",
     "dkls_keygen_init_lost_share_recovery", "dkls_keygen_create_first_message",
     "dkls_keygen_handle_messages", "dkls_keygen_keyshare", "dkls_sign_new",
     "dkls_sign_create_first_message", "dkls_sign_handle_messages",
     "dkls_sign_last_message", "dkls_sign_combine"}

\* C17: a call of a function that has an error out-parameter, given a non-null
\* one, reports failure exactly when it stored one error value in it; a
\* successful call stores none, a failing call never stores two, and a call
\* given a null out-parameter stores nothing.
C17_ErrorIffFailure ==
    ret.op \in ErrOutOps =>
        /\ ret.stored \in {0, 1}
        /\ ret.errOutNull => (ret.stored = 0 /\ ret.err = NoError)
        /\ ~ret.errOutNull =>
              /\ ~ret.ok <=> ret.stored = 1
              /\ ret.ok <=> ret.err = NoError
              /\ ~ret.ok => ret.err.message # ""

C17_Witness ==
    /\ ret.op = "dkls_keygen_handle_messages" /\ ret.round0 = "WaitMsg3"
    /\ ~ret.errOutNull /\ ~ret.ok /\ ret.stored = 1
    /\ ret.err = GoErrorNew("invalid commitments length", CodeGeneric)

\* The type of message each call returns, by the round it found.
OutboundType(op, round0) ==
    CASE op = "dkls_keygen_create_first_message" -> "KeygenMsg1"
      [] op = "dkls_keygen_handle_messages" /\ round0 = "WaitMsg1" -> "KeygenMsg2"
      [] op = "dkls_keygen_handle_messages" /\ round0 = "WaitMsg2" -> "KeygenMsg3"
      [] op = "dkls_keygen_handle_messages" /\ round0 = "WaitMsg3" -> "KeygenMsg4"
      [] op = "dkls_sign_create_first_message" -> "SignMsg1"
      [] op = "dkls_sign_handle_messages" /\ round0 = "WaitMsg1" -> "SignMsg2"
      [] op = "dkls_sign_handle_messages" /\ round0 = "WaitMsg2" -> "SignMsg3"
      [] op = "dkls_sign_last_message" -> "SignMsg4"
      [] OTHER -> "none"

\* C15: every outbound message carries the routing its round type fixes:
\* round-1 and round-4 messages of both protocols carry to_id 255, round-2 and
\* round-3 messages carry the destination party id of their payload, and
\* from_id is the sender id of the payload.
C15_RoutingByType ==
    \A i \in 1..Len(ret.out) :
        LET m == ret.out[i]
            type == OutboundType(ret.op, ret.round0)
        IN /\ type # "none"
           /\ CborDecodable(type, m.payload)
           /\ m.from_id = CborDecode(type, m.payload).from_id
           /\ type \in P2PTypes =>
                 /\ m.to_id = CborDecode(type, m.payload).to_id
                 /\ m.to_id # BroadcastId
           /\ type \notin P2PTypes => m.to_id = BroadcastId

C15_Witness ==
    /\ ret.op = "dkls_keygen_handle_messages" /\ ret.round0 = "WaitMsg1"
    /\ Len(ret.out) = 2
    /\ ret.out[1].from_id = 0 /\ ret.out[1].to_id = 1

SignOps ==
    {"dkls_sign_new", "dkls_sign_to_bytes", "dkls_sign_from_bytes",
     "dkls_sign_create_first_message", "dkls_sign_handle_messages",
     "dkls_sign_last_message", "dkls_sign_combine", "dkls_sign_free"}

KeyshareOps ==
    {"dkls_keyshare_from_bytes", "dkls_keyshare_to_bytes", "dkls_keyshare_free"}

\* C16: creating a sign session copies the keyshare: the new session holds the
\* value of the caller's keyshare, no sign operation (creation, advance,
\* digest supply, combine, free) changes the caller's keyshare handle, no
\* keyshare operation changes the session, and the copy a live session holds
\* never changes.
C16_KeyshareCopied ==
    [][/\ ret'.op \in SignOps => ks' = ks
       /\ ret'.op \in KeyshareOps => sg' = sg
       /\ (ret'.op = "dkls_sign_new" /\ ret'.ok) =>
             /\ sg'.alive /\ ks.alive
             /\ sg'.state.keyshare = ks.inner
       /\ (sg.alive /\ sg'.alive) => sg'.state.keyshare = sg.state.keyshare
      ]_vars

C16_Witness ==
    /\ ret.op = "dkls_sign_handle_messages" /\ ret.ok
    /\ sg.alive /\ sg.state.keyshare \in Keyshares
    /\ ~ks.alive

KeygenInitOps ==
    {"dkls_keygen_new", "dkls_keygen_init_key_rotation",
     "dkls_keygen_init_key_recovery", "dkls_keygen_init_lost_share_recovery"}

\* The error an initialization reports for arguments it refuses, "" when it
\* refuses none of them.
InitArgError(op, arg) ==
    CASE op = "dkls_keygen_init_lost_share_recovery" ->
           IF arg.pk.len # PkLen THEN "invalid PK size"
           ELSE IF ~arg.pk.valid THEN "invalid PK" ELSE ""
      [] op \in {"dkls_keygen_init_key_rotation", "dkls_keygen_init_key_recovery"} ->
           IF arg.keyshareNull THEN "null keyshare" ELSE ""
      [] op = "dkls_sign_new" ->
           IF arg.keyshareNull THEN "null keyshare"
           ELSE IF arg.path.null THEN "null pointer"
           ELSE IF ~arg.path.utf8 THEN "invalid UTF-8"
           ELSE IF ~DerivationPathOk(arg.path.str) THEN "invalid derivation path"
           ELSE ""
      [] OTHER -> ""

\* C18: an initialization given a public key whose length is not 33 or that is
\* no valid point, a null keyshare, or a malformed derivation path returns no
\* session and a code-1 error without calling the engine; an initialization
\* that fails for any reason leaves no session; one that succeeds returns a
\* session in round Init.
C18_InitValidates ==
    ret.op \in KeygenInitOps \cup {"dkls_sign_new"} =>
        /\ InitArgError(ret.op, ret.arg) # "" =>
              /\ ~ret.ok /\ ret.engine = "none"
              /\ ~ret.errOutNull =>
                    ret.err = GoErrorNew(InitArgError(ret.op, ret.arg), CodeGeneric)
        /\ ~ret.ok => (~kg.alive /\ ~sg.alive)
        /\ (ret.ok /\ ret.op \in KeygenInitOps) =>
              (kg.alive /\ kg.round = KRound("Init") /\ ~sg.alive)
        /\ (ret.ok /\ ret.op = "dkls_sign_new") =>
              (sg.alive /\ sg.round = SRound("Init") /\ ~kg.alive)

C18_Witness ==
    /\ ret.op = "dkls_keygen_init_lost_share_recovery"
    /\ ret.arg.pk.len = PkLen /\ ~ret.arg.pk.valid
    /\ ~ret.ok /\ ret.err = GoErrorNew("invalid PK", CodeGeneric)
    /\ ~kg.alive

\* C19: deserializing a session returns no session for every input, the
\* serialization of the live session included, and leaves every handle as it
\* was, for keygen and for sign; serializing a session changes nothing of it.
C19_NoResume ==
    [][/\ ret'.op \in {"dkls_keygen_from_bytes", "dkls_sign_from_bytes"} =>
             (~ret'.ok /\ kg' = kg /\ sg' = sg /\ ks' = ks)
       /\ ret'.op \in {"dkls_keygen_to_bytes", "dkls_sign_to_bytes"} =>
             (kg' = kg /\ sg' = sg /\ ks' = ks)
      ]_vars

C19_Witness ==
    /\ ret.op = "dkls_keygen_from_bytes" /\ ~ret.ok
    /\ kg.alive /\ kg.round.tag = "WaitMsg2"
    /\ ret.bytes = keygen_to_bytes(kg)

\* C20: two sessions constructed with the same seed and the same inputs, and
\* driven by the same calls with the same inbound messages and the same
\* per-call seeds, return the same outbound messages and the same results and
\* are in the same round after every call.
C20_SeededDeterminism ==
    twin.same =>
        /\ twin.a.out = twin.b.out
        /\ twin.a.ok = twin.b.ok
        /\ twin.a.dead = twin.b.dead
        /\ twin.a.kg = twin.b.kg
        /\ twin.a.sg = twin.b.sg

C20_Witness ==
    /\ twin.same /\ ~twin.a.dead
    /\ twin.a.kg.alive /\ twin.a.kg.round.tag = "WaitMsg3"
    /\ Len(twin.a.out) = 2 /\ twin.a.out = twin.b.out

NetRoundAfter(tag) ==
    CASE tag = "Init" -> "WaitMsg1" [] tag = "WaitMsg1" -> "WaitMsg2"
      [] tag = "WaitMsg2" -> "WaitMsg3" [] tag = "WaitMsg3" -> "WaitMsg4"
      [] tag = "WaitMsg4" -> "Share" [] tag = "Share" -> "Freed"
      [] OTHER -> "none"

NetAllDone ==
    /\ net.n > 0
    /\ \A i \in 1..net.n : ~net.session[i].alive /\ net.share[i] # NoShare

C22_CooperativeKeygen ==
    /\ [][\A i \in 1..net.n :
            net'.session[i].round.tag \in
                {net.session[i].round.tag, NetRoundAfter(net.session[i].round.tag)}]_vars
    /\ [](\A i \in 1..net.n, j \in 1..net.n :
            (net.share[i] # NoShare /\ net.share[j] # NoShare) =>
                /\ net.share[i].public_key = net.share[j].public_key
                /\ net.share[i].threshold = net.t
                /\ net.share[j].threshold = net.t
                /\ net.share[i].party_id = i - 1)
    /\ <>NetAllDone

C22_Witness ==
    /\ net.n = MaxParties
    /\ NetAllDone
    /\ \A i \in 1..net.n : net.share[i].public_key = net.pk

\* C23: a round-advance call whose batch holds any message that does not
\* decode fails as a whole without invoking the engine; in keygen round 4 and
\* sign round 3 it leaves the session Failed, in keygen rounds 1-3 and sign
\* rounds 1-2 it leaves the session as it was, so that the same round still
\* advances on a batch that decodes.
KeygenBatchRejected ==
    /\ kg.alive /\ ret'.op = "dkls_keygen_handle_messages"
    /\ KeygenDecodes(kg, ret'.comm)
    /\ ~DecodeVectorOk(KeygenExpects(kg.round.tag), ret'.msgs)

SignBatchRejected ==
    /\ sg.alive /\ ret'.op = "dkls_sign_handle_messages"
    /\ sg.round.tag \in {"WaitMsg1", "WaitMsg2", "WaitMsg3"}
    /\ ~DecodeVectorOk(SignExpects(sg.round.tag), ret'.msgs)

C23_DecodeAllOrNothing ==
    [][/\ KeygenBatchRejected =>
            /\ ~ret'.ok /\ ret'.engine = "none" /\ ret'.out = <<>>
            /\ kg'.alive /\ kg'.state = kg.state
            /\ IF kg.round.tag = "WaitMsg4"
               THEN kg'.round.tag = "Failed"
               ELSE /\ kg' = kg
                    /\ LET o == dkls_keygen_handle_messages(
                                    kg',
                                    <<MessageNew(ProtoMsg(KeygenExpects(kg.round.tag), 1, 0))>>,
                                    ret'.comm, "ok", 1)
                       IN o.ok /\ o.h.round = KeygenNextRound(kg.round.tag)
       /\ SignBatchRejected =>
            /\ ~ret'.ok /\ ret'.engine = "none" /\ ret'.out = <<>>
            /\ sg'.alive /\ sg'.state = sg.state
            /\ IF sg.round.tag = "WaitMsg3"
               THEN sg'.round.tag = "Failed"
               ELSE /\ sg' = sg
                    /\ LET o == dkls_sign_handle_messages(
                                    sg',
                                    <<MessageNew(ProtoMsg(SignExpects(sg.round.tag), 1, 0))>>,
                                    "ok")
                       IN o.ok /\ o.h.round = SignNextRound(sg.round.tag)]_vars

C23_Witness ==
    /\ ret.op = "dkls_keygen_handle_messages" /\ ret.round0 = "WaitMsg2"
    /\ ret.err = DecodeError /\ ret.engine = "none"
    /\ Len(ret.msgs) = 2
    /\ CborDecodable("KeygenMsg2", ret.msgs[1].payload)
    /\ ~CborDecodable("KeygenMsg2", ret.msgs[2].payload)
    /\ kg.alive /\ kg.round.tag = "WaitMsg2"
    /\ kg.state.calls = <<"generate_msg1", "handle_msg1">>

\* C24: when every batch decodes and the engine accepts every round, a keygen
\* session is in Share after one first-message call and four round-advance
\* calls and not before, and a sign session yields its signature after one
\* first-message call, three round-advance calls, one digest call and one
\* combine call; and under a host that keeps making the next expected call
\* every session comes to a keyshare, a signature or Failed.
KeygenAdvance(h) ==
    dkls_keygen_handle_messages(h, GoodBatch(KeygenExpects(h.round.tag)),
                                [null |-> FALSE, len |-> h.n * CommitmentLen],
                                "ok", 1).h

SignAdvance(h) ==
    dkls_sign_handle_messages(h, GoodBatch(SignExpects(h.round.tag)), "ok").h

KeygenFiveCalls(h) ==
    LET h1 == keygen_create_first_message(h).h
        h2 == KeygenAdvance(h1)
        h3 == KeygenAdvance(h2)
        h4 == KeygenAdvance(h3)
        h5 == KeygenAdvance(h4)
    IN /\ h1.round.tag = "WaitMsg1" /\ h2.round.tag = "WaitMsg2"
       /\ h3.round.tag = "WaitMsg3" /\ h4.round.tag = "WaitMsg4"
       /\ h5.round.tag = "Share" /\ h5.alive
       /\ dkls_keygen_keyshare(h5).ok

SignSixCalls(h) ==
    LET h1 == sign_create_first_message(h).h
        h2 == SignAdvance(h1)
        h3 == SignAdvance(h2)
        h4 == SignAdvance(h3)
        h5 == dkls_sign_last_message(h4, DigestLen).h
        o6 == dkls_sign_combine(h5, GoodBatch("SignMsg4"), "ok")
    IN /\ h1.round.tag = "WaitMsg1" /\ h2.round.tag = "WaitMsg2"
       /\ h3.round.tag = "WaitMsg3" /\ h4.round.tag = "Pre"
       /\ h5.round.tag = "WaitMsg4" /\ h5.alive
       /\ o6.ok /\ o6.data = SignatureR \o SignatureS /\ ~o6.h.alive

KeygenInProgress ==
    kg.alive /\ kg.round.tag \in {"Init", "WaitMsg1", "WaitMsg2", "WaitMsg3", "WaitMsg4"}

SignInProgress ==
    sg.alive /\ sg.round.tag \in {"Init", "WaitMsg1", "WaitMsg2", "WaitMsg3", "Pre", "WaitMsg4"}

C24_SessionsTerminate ==
    /\ []((kg.alive /\ kg.round.tag = "Init") => KeygenFiveCalls(kg))
    /\ []((sg.alive /\ sg.round.tag = "Init") => SignSixCalls(sg))
    /\ [][(ret'.op = "dkls_sign_combine" /\ ret'.ok) =>
             sg.state.calls = <<"generate_msg1", "handle_msg1", "handle_msg2",
                                "handle_msg3", "create_partial_signature">>]_vars
    /\ [](kg.alive /\ kg.round.tag = "Share" =>
             kg.state.calls = <<"generate_msg1", "handle_msg1", "handle_msg2",
                                "handle_msg3", "handle_msg4">>)
    /\ KeygenInProgress ~> (~kg.alive \/ kg.round.tag \in {"Share", "Failed"})
    /\ SignInProgress ~> (~sg.alive \/ sg.round.tag = "Failed")

C24_Witness ==
    /\ ret.op = "dkls_sign_combine" /\ ret.ok /\ ret.round0 = "WaitMsg4"
    /\ ret.engine = "combine_signatures"
    /\ ret.data = SignatureR \o SignatureS
    /\ ~sg.alive

\* C25: on one session the engine's round operations are invoked at most
\* once each and in protocol order (keygen: generate_msg1, handle_msg1,
\* handle_msg2, handle_msg3, handle_msg4; sign: generate_msg1, handle_msg1,
\* handle_msg2, handle_msg3, create_partial_signature, combine_signatures),
\* and none is invoked once the round is Failed.
KeygenEngineOrder ==
    <<"generate_msg1", "handle_msg1", "handle_msg2", "handle_msg3", "handle_msg4">>
SignEngineOrder ==
    <<"generate_msg1", "handle_msg1", "handle_msg2", "handle_msg3",
      "create_partial_signature", "combine_signatures">>

IsPrefix(p, q) == Len(p) <= Len(q) /\ \A i \in 1..Len(p) : p[i] = q[i]

RoundOperations ==
    {KeygenEngineOrder[i] : i \in 1..5} \cup {SignEngineOrder[i] : i \in 1..6}

C25_EngineOrder ==
    [][/\ kg'.alive => IsPrefix(kg'.state.calls, KeygenEngineOrder)
       /\ sg'.alive => IsPrefix(sg'.state.calls, SignEngineOrder)
       /\ (kg.alive /\ ret'.engine \in RoundOperations) =>
            /\ Len(kg.state.calls) < 5
            /\ ret'.engine = KeygenEngineOrder[Len(kg.state.calls) + 1]
       /\ (sg.alive /\ ret'.engine \in RoundOperations) =>
            /\ Len(sg.state.calls) < 6
            /\ ret'.engine = SignEngineOrder[Len(sg.state.calls) + 1]
       /\ ret'.engine \in RoundOperations => kg.alive \/ sg.alive
       /\ (kg.alive /\ kg.round.tag = "Failed") =>
            /\ ret'.engine = "none"
            /\ kg'.alive => kg'.state.calls = kg.state.calls
       /\ (sg.alive /\ sg.round.tag = "Failed") =>
            /\ ret'.engine = "none"
            /\ sg'.alive => sg'.state.calls = sg.state.calls
      ]_vars

C25_Witness ==
    /\ ret.op = "dkls_sign_handle_messages" /\ ret.round0 = "Failed"
    /\ ret.engine = "none" /\ ~ret.ok
    /\ sg.alive /\ sg.round.tag = "Failed"
    /\ sg.state.calls = <<"generate_msg1", "handle_msg1", "handle_msg2">>

\* C26: a keygen handle is destroyed exactly by free, in any round, and by
\* extract-keyshare in every round but Failed; a sign handle exactly by free,
\* in any round, and by combine, in any round, when both output buffers are
\* given.  No other call destroys a handle, a handle comes into being only by
\* a successful creation, and a call made once the handle is gone destroys
\* nothing: releasing a handle when no earlier call destroyed it releases every
\* session once.
KeygenCreators ==
    {"dkls_keygen_new", "dkls_keygen_init_key_rotation",
     "dkls_keygen_init_key_recovery", "dkls_keygen_init_lost_share_recovery"}

KeygenDestroyed ==
    \/ ret'.op = "dkls_keygen_free"
    \/ ret'.op = "dkls_keygen_keyshare" /\ kg.round.tag # "Failed"

SignDestroyed ==
    \/ ret'.op = "dkls_sign_free"
    \/ ret'.op = "dkls_sign_combine" /\ ~ret'.outNull

C26_DestroyingCalls ==
    [][/\ kg.alive => (~kg'.alive <=> KeygenDestroyed)
       /\ sg.alive => (~sg'.alive <=> SignDestroyed)
       /\ (kg.alive /\ ret'.op = "dkls_keygen_free") =>
            ret'.round0 = kg.round.tag /\ kg' = FreedKeygen
       /\ (sg.alive /\ ret'.op = "dkls_sign_combine" /\ ~ret'.outNull) =>
            ret'.round0 = sg.round.tag /\ sg' = FreedSign
       /\ ~kg.alive =>
            /\ kg = FreedKeygen
            /\ kg'.alive => (ret'.op \in KeygenCreators /\ ret'.ok)
            /\ ~kg'.alive => kg' = kg
       /\ ~sg.alive =>
            /\ sg = FreedSign
            /\ sg'.alive => (ret'.op = "dkls_sign_new" /\ ret'.ok)
            /\ ~sg'.alive => sg' = sg
      ]_vars

C26_Witness ==
    /\ ret.op = "dkls_keygen_keyshare" /\ ret.round0 = "WaitMsg2"
    /\ ~ret.ok /\ ~kg.alive /\ ~ks.alive

\* C27: Finished is never the round of a live sign session once a call has
\* returned: the digest call, which puts it in the handle while it looks at
\* the round it took out, leaves WaitMsg4 or the round it took out, and
\* combine puts it only in a handle it then drops.
C27_FinishedNeverObserved ==
    /\ [](sg.alive => sg.round.tag \in {"Init", "WaitMsg1", "WaitMsg2", "WaitMsg3",
                                         "Pre", "WaitMsg4", "Failed"})
    /\ [][/\ (sg.alive /\ ret'.op = "dkls_sign_last_message") =>
                /\ sg'.alive
                /\ IF sg.round.tag = "Pre" /\ ret'.hashLen = DigestLen
                   THEN sg'.round.tag = "WaitMsg4"
                   ELSE sg'.round = sg.round
          /\ (sg.alive /\ ret'.op = "dkls_sign_combine") =>
                \/ ~sg'.alive
                \/ ret'.outNull /\ sg' = sg
         ]_vars

C27_Witness ==
    /\ ret.op = "dkls_sign_last_message" /\ ret.round0 = "WaitMsg2"
    /\ ret.hashLen = DigestLen /\ ~ret.ok
    /\ sg.alive /\ sg.round.tag = "WaitMsg2"

\* C28: a seed that is non-null and whose length is neither zero nor 32 is
\* never answered with an error value: session creation and round-advance
\* that get as far as the generator panic on it, whatever the round of the
\* session (Failed included) and before any of it is looked at; only a call
\* that an earlier argument check turns down (a null handle, a null keyshare,
\* a bad path) returns, with that check's error and nothing changed. A null
\* or zero-length seed never panics and the generator is drawn from the
\* entropy of the system; a panic has no other cause than such a seed.
BadSeed(seed) == ~seed.null /\ seed.len # 0 /\ seed.len # SeedLen
ReachesGenerator(w) ==
    /\ w.call.argsOk
    /\ w.call.op = "dkls_keygen_handle_messages" => w.call.kg0 # "Freed"
    /\ w.call.op = "dkls_sign_handle_messages" => w.call.sg0 # "Freed"
C28_BadSeedPanics ==
    LET w == twin.a
        c == w.call
    IN c.op # "none" =>
         /\ (BadSeed(c.seed) /\ ReachesGenerator(w)) =>
                w = [Aborted EXCEPT !.call = c]
         /\ (BadSeed(c.seed) /\ ~ReachesGenerator(w)) =>
                /\ ~w.dead /\ ~w.ok /\ w.out = <<>>
                /\ w.kg.round.tag = c.kg0 /\ w.sg.round.tag = c.sg0
         /\ w.dead => BadSeed(c.seed)
         /\ (c.seed.null \/ c.seed.len = 0) =>
                c.rng = [panic |-> FALSE, stream |-> c.entropy]
C28_Witness ==
    /\ twin.a.call.op = "dkls_keygen_handle_messages"
    /\ twin.a.call.kg0 = "Failed"
    /\ BadSeed(twin.a.call.seed)
    /\ twin.a.dead

====
